---- MODULE Spec2Model ----
(***************************************************************************)
(* The lazy hierarchical data-access layer of countrystatecity:            *)
(*   - the filesystem loader of @countrystatecity/countries               *)
(*     (segment resolver + candidate-path document loader + getters),      *)
(*   - the fetch loader of @countrystatecity/countries-browser             *)
(*     (configuration + in-memory cache + timeout + getters),              *)
(*   - the producer scripts whose document tree both loaders consume.      *)
(* Strings are sequences of one-character strings, so that split('-'),     *)
(* replace(/\s+/g,'_') and template concatenation are computed, not        *)
(* assumed.                                                                *)
(***************************************************************************)
EXTENDS Integers, Sequences, FiniteSets, TLC

\* ---------------------------------------------------------------- bounds
\* Total number of API calls (getters, configure, resetConfiguration,
\* clearCache) issued to the browser package in one behaviour.
MaxCalls == 3

\* Total number of getter calls issued to the server package in one behaviour.
MaxFsCalls == 2

\* Number of calls after which no further utility or aggregate is invoked.
MaxUtilCalls == 2

\* ---------------------------------------------------------------- strings
Last(s) == s[Len(s)]

\* String.prototype.split('-'): the pieces between the separators.
RECURSIVE SplitFrom(_, _, _)
SplitFrom(s, i, cur) ==
  IF i > Len(s) THEN <<cur>>
  ELSE IF s[i] = "-" THEN <<cur>> \o SplitFrom(s, i + 1, <<>>)
  ELSE SplitFrom(s, i + 1, Append(cur, s[i]))

SplitDash(s) == SplitFrom(s, 1, <<>>)

\* parts[parts.length - 1] of dir.split('-')
DirCode(dir) == Last(SplitDash(dir))

\* name.replace(/\s+/g, '_'): every maximal run of whitespace becomes one '_'.
RECURSIVE ReplaceWs(_, _, _)
ReplaceWs(s, i, inRun) ==
  IF i > Len(s) THEN <<>>
  ELSE IF s[i] = " "
       THEN (IF inRun THEN <<>> ELSE <<"_">>) \o ReplaceWs(s, i + 1, TRUE)
       ELSE <<s[i]>> \o ReplaceWs(s, i + 1, FALSE)

safeDirName(name, code) == ReplaceWs(name, 1, FALSE) \o <<"-">> \o code

\* ---------------------------------------------------------------- maps
EmptyMap == [k \in {} |-> <<>>]

MapSet(m, k, v) == [x \in (DOMAIN m) \cup {k} |-> IF x = k THEN v ELSE m[x]]

MapHas(m, k) == k \in DOMAIN m

SeqToSet(s) == {s[i] : i \in DOMAIN s}

\* All enumerations (without repetition) of a finite set.
Enumerations(S) ==
  {q \in [1..Cardinality(S) -> S] : \A i, j \in 1..Cardinality(S) : i # j => q[i] # q[j]}

\* ---------------------------------------------------------------- documents
\* A parsed JSON value, or the absence of a file.
Arr(items) == [kind |-> "array", items |-> items]
Obj(rec) == [kind |-> "object", rec |-> rec]
NoFile == [kind |-> "absent"]

\* ---------------------------------------------------------------- upstream source data
\* The monolithic countries+states+cities document the producer script reads.
\* SrcPlain: a country with a blank in its label and two states (one with a
\* hyphenated label and cities, one without cities), and a country without
\* states. SrcHyphen: a state whose code itself contains '-', and a second
\* state, so that a directory listing has more than one order.
SrcPlain ==
  << [id |-> 1, name |-> <<"U", " ", "S">>, iso2 |-> <<"U", "S">>, timezones |-> <<"tzA">>,
      states |-> << [id |-> 11, name |-> <<"N", "-", "C">>, iso2 |-> <<"C", "A">>,
                     cities |-> << [id |-> 111, name |-> <<"L", "A">>],
                                   [id |-> 112, name |-> <<"S", "F">>] >>],
                    [id |-> 12, name |-> <<"T">>, iso2 |-> <<"T", "X">>, cities |-> <<>>] >>],
     [id |-> 2, name |-> <<"V">>, iso2 |-> <<"V", "A">>, timezones |-> <<"tzB">>,
      states |-> <<>>] >>

SrcHyphen ==
  << [id |-> 1, name |-> <<"U", " ", "S">>, iso2 |-> <<"U", "S">>, timezones |-> <<"tzA">>,
      states |-> << [id |-> 11, name |-> <<"N">>, iso2 |-> <<"A", "-", "B">>,
                     cities |-> << [id |-> 111, name |-> <<"L", "A">>] >>],
                    [id |-> 12, name |-> <<"M">>, iso2 |-> <<"C">>,
                     cities |-> << [id |-> 121, name |-> <<"S", "F">>] >>] >>] >>

Sources == {SrcPlain, SrcHyphen}

\* SrcTwo: two countries that both have states with cities, the first with two
\* such states, so that an aggregate concatenates more than one non-empty list.
SrcTwo ==
  << [id |-> 1, name |-> <<"A">>, iso2 |-> <<"A", "A">>, timezones |-> <<"tzA">>,
      states |-> << [id |-> 11, name |-> <<"P">>, iso2 |-> <<"P", "A">>,
                     cities |-> << [id |-> 111, name |-> <<"L", "A">>] >>],
                    [id |-> 12, name |-> <<"Q">>, iso2 |-> <<"Q", "A">>,
                     cities |-> << [id |-> 121, name |-> <<"S", "F">>] >>] >>],
     [id |-> 2, name |-> <<"B">>, iso2 |-> <<"B", "B">>, timezones |-> <<"tzB">>,
      states |-> << [id |-> 21, name |-> <<"R">>, iso2 |-> <<"R", "B">>,
                     cities |-> << [id |-> 211, name |-> <<"L", "B">>] >>] >>] >>


\* A code no source contains.
AbsentCode == <<"Z", "Z">>

\* ---------------------------------------------------------------- producer: generate-data.cjs
\* countriesList: the lightweight record of every country (no timezones).
LightCountry(country) == [id |-> country.id, name |-> country.name, iso2 |-> country.iso2]

countriesList(src) == [i \in DOMAIN src |-> LightCountry(src[i])]

\* "Skip if no states": only these countries get a directory.
HasStates(country) == Len(country.states) > 0

HasCities(state) == Len(state.cities) > 0

\* meta.json: the list record plus the extended attributes.
MetaOf(country) ==
  [id |-> country.id, name |-> country.name, iso2 |-> country.iso2,
   timezones |-> country.timezones]

statesList(country) ==
  [i \in DOMAIN country.states |->
     [id |-> country.states[i].id, name |-> country.states[i].name,
      country_id |-> country.id, country_code |-> country.iso2,
      iso2 |-> country.states[i].iso2]]

citiesList(country, state) ==
  [i \in DOMAIN state.cities |->
     [id |-> state.cities[i].id, name |-> state.cities[i].name,
      state_id |-> state.id, state_code |-> state.iso2,
      country_id |-> country.id, country_code |-> country.iso2]]

\* The country directories the forEach creates, and the country that wrote each
\* last (a later country with the same directory name overwrites the files).
CountryDirs(src) ==
  {safeDirName(src[i].name, src[i].iso2) : i \in {j \in DOMAIN src : HasStates(src[j])}}

CountryOfDir(src, dir) ==
  LET idx == {j \in DOMAIN src : HasStates(src[j]) /\ safeDirName(src[j].name, src[j].iso2) = dir}
  IN  src[CHOOSE j \in idx : \A k \in idx : k <= j]

StateDirs(src, countryDir) ==
  IF countryDir \notin CountryDirs(src) THEN {}
  ELSE LET c == CountryOfDir(src, countryDir)
       IN  {safeDirName(c.states[i].name, c.states[i].iso2) :
              i \in {j \in DOMAIN c.states : HasCities(c.states[j])}}

StateOfDir(src, countryDir, stateDir) ==
  LET c == CountryOfDir(src, countryDir)
      idx == {j \in DOMAIN c.states :
                HasCities(c.states[j]) /\ safeDirName(c.states[j].name, c.states[j].iso2) = stateDir}
  IN  c.states[CHOOSE j \in idx : \A k \in idx : k <= j]

\* A logical path of the server tree: the directory segments below data/ and
\* the document kind ("countries", "meta", "states", "cities").
FsPath(dirs, file) == [dirs |-> dirs, file |-> file]

\* generateSplitData: the document written at a path, or NoFile.
generateSplitData(src, path) ==
  IF path.dirs = <<>>
  THEN (IF path.file = "countries" THEN Arr(countriesList(src)) ELSE NoFile)
  ELSE IF path.dirs[1] \notin CountryDirs(src) THEN NoFile
  ELSE IF Len(path.dirs) = 1
  THEN (IF path.file = "meta" THEN Obj(MetaOf(CountryOfDir(src, path.dirs[1])))
        ELSE IF path.file = "states" THEN Arr(statesList(CountryOfDir(src, path.dirs[1])))
        ELSE NoFile)
  ELSE IF Len(path.dirs) = 2 /\ path.dirs[2] \in StateDirs(src, path.dirs[1]) /\ path.file = "cities"
  THEN Arr(citiesList(CountryOfDir(src, path.dirs[1]),
                      StateOfDir(src, path.dirs[1], path.dirs[2])))
  ELSE NoFile

\* The codes a caller may ask for: every code of the source, every suffix a
\* directory name yields, and one code that exists nowhere.
AllStates(src) == UNION {SeqToSet(src[i].states) : i \in DOMAIN src}

CountryCodes(src) == {src[i].iso2 : i \in DOMAIN src} \cup {AbsentCode}

StateCodes(src) ==
  {s.iso2 : s \in AllStates(src)} \cup {DirCode(s.iso2) : s \in AllStates(src)} \cup {AbsentCode}

\* ---------------------------------------------------------------- state
Tasks == {1, 2}

\* The three candidate roots of possiblePaths, in listed order:
\* 1 module-relative, 2 parent-relative, 3 cwd/node_modules install root.
Roots == {1, 2, 3}

VARIABLES
  pkg,            \* which loader module the process runs: "server", "browser", "browserAlt";
                  \* "timezones" for the timezone package
  source,         \* the upstream dataset the document tree was produced from
  host,           \* isNodeEnvironment(): "node" or "browser"
  roots,          \* per candidate root: "absent", "valid", "malformed" (files not JSON)
  countryDirMap,  \* server loader: [built, map], built = FALSE is the initial null
  stateDirMaps,   \* server loader: country code -> (state code -> directory)
  calls,          \* facade calls issued so far
  pc,             \* per task: where its call is suspended
  call,           \* per task: [op, cc, sc]
  path,           \* per task: the logical path being resolved / loaded
  reads,          \* per task: candidate roots read by its loadJSON call, in order
  from,           \* per task: the root whose file was read successfully (0: none)
  loadResult,     \* per task: how its loadJSON call settled
  result,         \* per task: how the facade call settled
  currentConfig,  \* browser loader: the mutable configuration
  cache,          \* browser loader: the in-memory Map, URL -> parsed document
  snap,           \* per task: fullPath, config.cache and config.headers as read at
                  \* loadJSON entry; fetch() is called with that URL and those headers
  timer,          \* per task: its setTimeout is armed
  aborted,        \* per task: controller.signal.aborted
  fetched,        \* per task: its loadJSON call invoked fetch()
  clean,          \* per task: no configure/reset/clearCache since its call began
  prev,           \* browser loader: URL -> data a completed load returned, with
                  \* caching on and no configure/reset/clearCache since that load
                  \* began; server loader: path -> document a load has returned
  sinceClear,     \* [cleared, urls]: clearCache was called; URLs loaded since
  listed,         \* per task: the scopes whose directory its current call has listed
  agg             \* per task: the utility or aggregate operation its getter call serves

envVars == <<pkg, source, host, roots>>
fsVars == <<countryDirMap, stateDirMaps, reads, from, listed>>
taskVars == <<calls, pc, call, path, loadResult, result>>
fetchVars == <<currentConfig, cache, snap, timer, aborted, fetched>>
histVars == <<clean, prev, sinceClear>>
vars == <<envVars, fsVars, taskVars, fetchVars, histVars, agg>>

\* ---------------------------------------------------------------- outcomes
Null == [kind |-> "null"]
Resolved(v) == [kind |-> "resolved", value |-> v]
Rejected(e) == [kind |-> "rejected", error |-> e]
Pending == [kind |-> "pending"]
NoCall == [op |-> "none", cc |-> <<>>, sc |-> <<>>]
NoPath == [dirs |-> <<>>, file |-> "none"]
NoUrl == [base |-> "", dir |-> "none", name |-> <<>>]
NoSnap == [url |-> NoUrl, cache |-> FALSE, headers |-> <<>>]
NoAgg ==
  [op |-> "none", phase |-> "none", cc |-> <<>>, sc |-> <<>>, arg |-> <<>>,
   todo |-> <<>>, items |-> <<>>, outer |-> <<>>, all |-> <<>>, par |-> <<>>, states |-> <<>>]

\* The value a getter's catch clause (and its "if (!dir) return") produces.
NotFoundValue(op) == IF op = "getCountryByCode" THEN Null ELSE Arr(<<>>)

\* A getter without its try/catch: the load's outcome reaches the caller as it is.
getterSettleNoCatch(op, outcome) == outcome

\* Getters that all have the try/catch, getCountries included.
getterSettleCatchAll(op, outcome) ==
  IF outcome.kind = "resolved" THEN outcome ELSE Resolved(NotFoundValue(op))

\* try { return await loadJSON(..) } catch (error) { return null / [] };
\* getCountries has no try/catch.
getterSettle(op, outcome) ==
  IF op = "getCountries" \/ outcome.kind = "resolved" THEN outcome
  ELSE Resolved(NotFoundValue(op))

\* ---------------------------------------------------------------- server loader: segment resolver
NoDir == <<>>

RECURSIVE BuildFrom(_, _, _)
BuildFrom(listing, i, m) ==
  IF i > Len(listing) THEN m
  ELSE BuildFrom(listing, i + 1, MapSet(m, DirCode(listing[i]), listing[i]))

\* A build that consumes only the head of its listing while another call is
\* listing too.
BuildDirMapRacing(listing) ==
  IF Cardinality({k \in Tasks : pc[k] \in {"scanCountry", "scanState"}}) > 1
  THEN BuildFrom(SubSeq(listing, 1, 1), 1, EmptyMap)
  ELSE BuildFrom(listing, 1, EmptyMap)

\* A build that is published after its first set() call.
BuildDirMapFirst(listing) == BuildFrom(SubSeq(listing, 1, 1), 1, EmptyMap)

\* for (const dir of dirs) { map.set(last part of dir.split('-'), dir) }
BuildDirMap(listing) == BuildFrom(listing, 1, EmptyMap)

\* map.get(code) || null
MapGetOrNull(m, code) == IF MapHas(m, code) /\ m[code] # <<>> THEN m[code] ELSE NoDir

Settled(t, lr, r) ==
  /\ pc' = [pc EXCEPT ![t] = "done"]
  /\ loadResult' = [loadResult EXCEPT ![t] = lr]
  /\ result' = [result EXCEPT ![t] = r]

Goto(t, where, p) ==
  /\ pc' = [pc EXCEPT ![t] = where]
  /\ path' = [path EXCEPT ![t] = p]
  /\ UNCHANGED <<loadResult, result>>

\* loadJSON without its isNodeEnvironment() test: the fs branch in every host.
EnterLoadFs(t, p) == Goto(t, "load", p)

\* loadJSON entered: the fs branch awaits its imports in a Node host, otherwise
\* the dynamic import is the only strategy.
EnterLoad(t, p) == Goto(t, IF host = "node" THEN "load" ELSE "import", p)

\* A parent scope: the data root (the country map) or one country (its state
\* map, keyed by the country code of the request).
RootScope == <<>>

\* A resolver that never finds its map memoized.
MemoizedNever(scope) == FALSE

\* if (!countryDirMap) / if (!stateDirMaps.has(countryCode))
Memoized(scope) ==
  IF scope = RootScope THEN countryDirMap.built ELSE MapHas(stateDirMaps, scope)

\* getStateDirName after its map is available: lookup, then the cities load.
AfterStateDir(t, op, countryDir, stateDir) ==
  IF stateDir = NoDir
  THEN Settled(t, Pending, Resolved(NotFoundValue(op))) /\ UNCHANGED path
  ELSE EnterLoad(t, FsPath(<<countryDir, stateDir>>, "cities"))

\* The getter after getCountryDirName returned: "if (!countryDir) return",
\* then the load, or getStateDirName for the cities getter.
AfterCountryDir(t, op, cc, sc, countryDir) ==
  IF countryDir = NoDir
  THEN Settled(t, Pending, Resolved(NotFoundValue(op))) /\ UNCHANGED path
  ELSE IF op = "getCountryByCode" THEN EnterLoad(t, FsPath(<<countryDir>>, "meta"))
  ELSE IF op = "getStatesOfCountry" THEN EnterLoad(t, FsPath(<<countryDir>>, "states"))
  ELSE IF Memoized(cc)
       THEN AfterStateDir(t, op, countryDir, MapGetOrNull(stateDirMaps[cc], sc))
       ELSE Goto(t, "scanState", FsPath(<<countryDir>>, "cities"))

\* A getter of the server loader starts and runs to its first suspension point.
BeginFs(t, op, cc, sc) ==
  /\ call' = [call EXCEPT ![t] = [op |-> op, cc |-> cc, sc |-> sc]]
  /\ UNCHANGED <<fetchVars, histVars>>
  /\ UNCHANGED <<envVars, fsVars>>
  /\ IF op = "getCountries"
     THEN EnterLoad(t, FsPath(<<>>, "countries"))
     ELSE IF Memoized(RootScope)
     THEN AfterCountryDir(t, op, cc, sc, MapGetOrNull(countryDirMap.map, cc))
     ELSE IF host # "node"
     THEN \* 'Directory scanning is only available in Node.js environment'
          Settled(t, Pending, getterSettle(op, Rejected("no-scan"))) /\ UNCHANGED path
     ELSE Goto(t, "scanCountry", NoPath)

\* A caller invokes a getter of the server package.
FsCall(t, op, cc, sc) ==
  /\ pkg = "server" /\ pc[t] = "idle" /\ calls < MaxFsCalls
  /\ calls' = calls + 1
  /\ BeginFs(t, op, cc, sc)
  /\ UNCHANGED agg

\* getCountryDirName resumes after its imports: readdirSync(data), build and
\* publish the map, look the code up.
FsScanCountry(t) ==
  /\ pkg = "server" /\ pc[t] = "scanCountry"
  /\ UNCHANGED <<fetchVars, histVars, agg>>
  /\ UNCHANGED <<envVars, calls, call, reads, from>>
  /\ IF roots[1] = "absent"
     THEN /\ Settled(t, Pending, getterSettle(call[t].op, Rejected("ENOENT")))
          /\ UNCHANGED <<path, countryDirMap, stateDirMaps, listed>>
     ELSE \E listing \in Enumerations(CountryDirs(source)) :
            LET m == BuildDirMap(listing)
            IN  /\ countryDirMap' = [built |-> TRUE, map |-> m]
                /\ listed' = [listed EXCEPT ![t] = @ \cup {RootScope}]
                /\ UNCHANGED stateDirMaps
                /\ AfterCountryDir(t, call[t].op, call[t].cc, call[t].sc,
                                   MapGetOrNull(m, call[t].cc))

\* getStateDirName resumes after its imports: readdirSync(data/<countryDir>).
FsScanState(t) ==
  /\ pkg = "server" /\ pc[t] = "scanState"
  /\ UNCHANGED <<fetchVars, histVars, agg>>
  /\ UNCHANGED <<envVars, calls, call, reads, from, countryDirMap>>
  /\ \E listing \in Enumerations(StateDirs(source, path[t].dirs[1])) :
       LET m == BuildDirMap(listing)
       IN  /\ stateDirMaps' = MapSet(stateDirMaps, call[t].cc, m)
           /\ listed' = [listed EXCEPT ![t] = @ \cup {call[t].cc}]
           /\ AfterStateDir(t, call[t].op, path[t].dirs[1], MapGetOrNull(m, call[t].sc))

\* ---------------------------------------------------------------- server loader: loadJSON
\* fs.readFileSync(candidate r) succeeds iff the root holds the file.
Readable(r, p) == roots[r] # "absent" /\ generateSplitData(source, p) # NoFile

\* The candidate loop without its break: every candidate is read and the last
\* readable one is kept.
RECURSIVE ReadLoopNoBreak(_, _, _)
ReadLoopNoBreak(r, p, done) ==
  IF r > 3 THEN [reads |-> done, from |-> 0]
  ELSE LET rest == ReadLoopNoBreak(r + 1, p, Append(done, r))
       IN  IF Readable(r, p) /\ rest.from = 0 THEN [reads |-> rest.reads, from |-> r]
           ELSE rest

\* for (const fullPath of possiblePaths) { try { read; break } catch { continue } }
\* Returns the roots read, in order, and the root that was read successfully.
RECURSIVE ReadLoop(_, _, _)
ReadLoop(r, p, done) ==
  IF r > 3 THEN [reads |-> done, from |-> 0]
  ELSE IF Readable(r, p) THEN [reads |-> Append(done, r), from |-> r]
  ELSE ReadLoop(r + 1, p, Append(done, r))

\* JSON.parse(data)
JSONparse(r, p) ==
  IF roots[r] = "malformed" THEN Rejected("SyntaxError")
  ELSE Resolved(generateSplitData(source, p))

\* A loadJSON call of the server loader settles; prev records the documents
\* the loader has returned so far, by path.
FsSettled(t, out) ==
  /\ Settled(t, out, getterSettle(call[t].op, out))
  /\ prev' = IF out.kind = "resolved" THEN MapSet(prev, path[t], out.value) ELSE prev

\* loadJSON resumes after its imports: the candidate loop and the parse. Any
\* throw inside the fs branch is swallowed by "catch (fsError)" and the
\* dynamic-import fallback is entered.
FsLoad(t) ==
  /\ pkg = "server" /\ pc[t] = "load"
  /\ UNCHANGED <<fetchVars, clean, sinceClear, agg>>
  /\ UNCHANGED <<envVars, calls, call, countryDirMap, stateDirMaps, listed>>
  /\ LET lp == ReadLoop(1, path[t], <<>>)
     IN  /\ reads' = [reads EXCEPT ![t] = lp.reads]
         /\ from' = [from EXCEPT ![t] = lp.from]
         /\ IF lp.from # 0 /\ JSONparse(lp.from, path[t]).kind = "resolved"
            THEN FsSettled(t, JSONparse(lp.from, path[t])) /\ UNCHANGED path
            ELSE Goto(t, "import", path[t]) /\ UNCHANGED prev

\* await import(path): resolves relative to the module (root 1) when the host
\* or bundler can load the JSON there, rejects otherwise.
FsImport(t) ==
  /\ pkg = "server" /\ pc[t] = "import"
  /\ UNCHANGED <<fetchVars, clean, sinceClear, agg>>
  /\ UNCHANGED <<envVars, calls, call, fsVars, path>>
  /\ \E canImport \in BOOLEAN :
       LET out == IF canImport /\ roots[1] = "valid" /\ generateSplitData(source, path[t]) # NoFile
                  THEN Resolved(generateSplitData(source, path[t]))
                  ELSE IF host # "node" THEN Rejected("browser-environment")
                  ELSE Rejected("import-failed")
       IN  FsSettled(t, out)

\* ---------------------------------------------------------------- producer: browser tree
Url(base, dir, name) == [base |-> base, dir |-> dir, name |-> name]

StateDirPairs(src) ==
  UNION {{<<d, sd>> : sd \in StateDirs(src, d)} : d \in CountryDirs(src)}

\* A transformation that stops after writing countries.json.
transformDataRootOnly(src, dir, name) ==
  IF dir = "countries" THEN generateSplitData(src, FsPath(<<>>, "countries")) ELSE NoFile

\* transformData: the document written to <dir>/<name>.json of the browser
\* tree; iso2 and stateCode are the last '-' piece of the directory names.
transformData(src, dir, name) ==
  IF dir = "countries" THEN generateSplitData(src, FsPath(<<>>, "countries"))
  ELSE IF dir \in {"country", "states"}
  THEN LET ds == {d \in CountryDirs(src) : DirCode(d) = name}
       IN  IF ds = {} THEN NoFile
           ELSE generateSplitData(src, FsPath(<<CHOOSE d \in ds : TRUE>>,
                                               IF dir = "country" THEN "meta" ELSE "states"))
  ELSE LET ps == {q \in StateDirPairs(src) : DirCode(q[1]) \o <<"-">> \o DirCode(q[2]) = name}
       IN  IF ps = {} THEN NoFile
           ELSE generateSplitData(src, FsPath(CHOOSE q \in ps : TRUE, "cities"))

\* The codes the browser-side callers ask for.
FetchCountryCodes == {SrcPlain[1].iso2, AbsentCode}

\* The file names those codes address, and the browser tree of each dataset as
\* transformData writes it: the document at every <dir>/<name>.json asked for.
RequestNames ==
  {<<>>} \cup FetchCountryCodes
    \cup UNION { {src[i].iso2 : i \in DOMAIN src} : src \in Sources \cup {SrcTwo} }
    \cup UNION { UNION { {src[i].iso2 \o <<"-">> \o sc :
                            sc \in {s.iso2 : s \in SeqToSet(src[i].states)}
                                     \cup {DirCode(s.iso2) : s \in SeqToSet(src[i].states)}
                                     \cup {AbsentCode}} :
                          i \in DOMAIN src } :
                  src \in Sources \cup {SrcTwo} }

BrowserTree ==
  [src \in Sources \cup {SrcTwo} |->
     [f \in {"countries", "country", "states", "cities"} \X RequestNames |->
        transformData(src, f[1], f[2])]]

\* ---------------------------------------------------------------- browser loader: configuration
BaseURLs == {"/data", "/cdn"}

defaultConfig == [baseURL |-> "/data", cache |-> TRUE, timeout |-> 5000, headers |-> EmptyMap]

MapMerge(m, n) == [k \in (DOMAIN m) \cup (DOMAIN n) |-> IF k \in DOMAIN n THEN n[k] ELSE m[k]]

\* An object is the record of its properties that have a value; the
\* properties an options object carries with the value undefined are named
\* under its key "undefined".
\* { ...currentConfig, ...options }: every own property of options is copied,
\* one whose value is undefined too.
Spread(cfg, options) ==
  LET undef == IF "undefined" \in DOMAIN options THEN options["undefined"] ELSE {}
      keys == ((DOMAIN cfg) \cup ((DOMAIN options) \ {"undefined"})) \ undef
  IN  [f \in keys |-> IF f \in DOMAIN options THEN options[f] ELSE cfg[f]]

\* configure(): config.ts merges the headers key by key, the older config
\* module of the "browserAlt" build spreads the top level only.
configure(cfg, options) ==
  LET spread == Spread(cfg, options)
      headersOf(o) == IF "headers" \in DOMAIN o THEN o.headers ELSE EmptyMap
  IN  IF pkg = "browserAlt" THEN spread
      ELSE [f \in (DOMAIN spread) \cup {"headers"} |->
              IF f = "headers" THEN MapMerge(headersOf(cfg), headersOf(options))
              ELSE spread[f]]

\* Options that set request headers, a timeout, or several fields at once.
HeaderA == [k \in {"A"} |-> "1"]
HeaderOptions ==
  { [headers |-> HeaderA], [headers |-> [k \in {"B"} |-> "2"]],
    [baseURL |-> "/cdn", headers |-> [k \in {"A"} |-> "9"]], [timeout |-> 100] }

\* Options that carry a field with the value undefined: ConfigOptions
\* declares every field optional, which admits it.
UndefinedOptions ==
  { [undefined |-> {f}] : f \in {"baseURL", "cache", "timeout", "headers"} }
    \cup { [baseURL |-> "/cdn", undefined |-> {"timeout"}],
           [cache |-> FALSE, undefined |-> {"baseURL", "headers"}] }

\* The options the loader's behaviour depends on.
LoaderOptions == {[baseURL |-> b] : b \in BaseURLs} \cup {[cache |-> c] : c \in BOOLEAN}

\* Every task in flight has now seen a configure/reset/clearCache.
Disturb ==
  /\ clean' = [t \in Tasks |-> pc[t] = "idle"]
  /\ prev' = EmptyMap

ApiCall ==
  /\ pkg \in {"browser", "browserAlt"} /\ calls < MaxCalls
  /\ calls' = calls + 1
  /\ UNCHANGED <<envVars, fsVars, agg, pc, call, path, loadResult, result, snap, timer,
                 aborted,
                 fetched>>

Configure(options) ==
  /\ ApiCall
  /\ currentConfig' = configure(currentConfig, options)
  /\ Disturb
  /\ UNCHANGED <<cache, sinceClear>>

\* A reset that keeps the configured headers.
resetKeepHeaders(cfg) == [defaultConfig EXCEPT !.headers = cfg.headers]

\* resetConfiguration(): currentConfig = { ...defaultConfig }
resetConfiguration(cfg) == defaultConfig

\* getConfig(): return { ...currentConfig }
getConfig(cfg) == [f \in DOMAIN cfg |-> cfg[f]]

ResetConfiguration ==
  /\ ApiCall
  /\ currentConfig' = resetConfiguration(currentConfig)
  /\ Disturb
  /\ UNCHANGED <<cache, sinceClear>>

\* ---------------------------------------------------------------- browser loader: loadJSON
\* An origin that serves no data file: every request is answered 404.
MissingOrigin == "/gone"

\* The origin "/data" serves the browser tree of the source; the other origin
\* of BaseURLs serves the tree of another dataset.
ServerDoc(url) ==
  IF url.base = MissingOrigin THEN NoFile
  ELSE BrowserTree[IF url.base = "/data" THEN source ELSE SrcHyphen][<<url.dir, url.name>>]

\* Path templates resolved against the default origin whatever is configured.
PathOfDefaultBase(base, op, cc, sc) ==
  IF op = "getCountries" THEN Url("/data", "countries", <<>>)
  ELSE IF op = "getCountryByCode" THEN Url("/data", "country", cc)
  ELSE IF op = "getStatesOfCountry" THEN Url("/data", "states", cc)
  ELSE Url("/data", "cities", cc \o <<"-">> \o sc)

\* The path template of each getter.
PathOf(base, op, cc, sc) ==
  IF op = "getCountries" THEN Url(base, "countries", <<>>)
  ELSE IF op = "getCountryByCode" THEN Url(base, "country", cc)
  ELSE IF op = "getStatesOfCountry" THEN Url(base, "states", cc)
  ELSE Url(base, "cities", cc \o <<"-">> \o sc)

\* "Check cache first": loaders.ts consults the Map only when config.cache,
\* the "browserAlt" loader always.
CacheHit(cfg, url) ==
  IF pkg = "browserAlt" THEN MapHas(cache, url)
  ELSE cfg.cache /\ MapHas(cache, url)

\* A loader that never stores what it fetched.
CacheStoreNever(c, sn, data) == c

\* A loader that keeps the URL being loaded in one module-level variable:
\* the document is stored under the URL of every load in flight.
CacheStoreShared(c, sn, data) ==
  LET urls == {sn.url} \cup {snap[u].url : u \in {x \in Tasks : pc[x] \in {"fetching", "reading"}}}
  IN  IF pkg = "browserAlt" \/ sn.cache
      THEN [k \in (DOMAIN c) \cup urls |-> IF k \in urls THEN data ELSE c[k]]
      ELSE c

\* A loader whose Map holds one document: storing one drops every other key.
CacheStoreEvict(c, sn, data) ==
  IF pkg = "browserAlt" \/ sn.cache THEN [k \in {sn.url} |-> data] ELSE c

\* A loader that calls getConfig() again after the fetch to build the cache
\* key.
CacheStoreCurrentBase(c, sn, data) ==
  IF pkg = "browserAlt" \/ currentConfig.cache
  THEN MapSet(c, [sn.url EXCEPT !.base = currentConfig.baseURL], data)
  ELSE c

\* "Store in cache": loaders.ts stores only when config.cache, "browserAlt" always.
CacheStore(c, sn, data) ==
  IF pkg = "browserAlt" \/ sn.cache THEN MapSet(c, sn.url, data) ELSE c

\* clearTimeout(timeoutId) right after fetch resolved: only in loaders.ts; the
\* "browserAlt" loader clears in its finally block, when the call settles.
TimerAfterResponse(armed) == IF pkg = "browserAlt" THEN armed ELSE FALSE

\* A catch block that rethrows every error as it is.
LoadErrorRethrow(name) == name

\* catch (error): an AbortError becomes the loader's own timeout error
\* ('Request timeout ...'), every other error is rethrown as it is. "http"
\* names the error thrown for a non-OK response ('Failed to fetch ...').
LoadError(name) == IF name = "AbortError" THEN "timeout" ELSE name

\* A loader whose catch block rethrows without clearTimeout.
FetchSettledTimerLeft(t, out) ==
  /\ Settled(t, out, getterSettle(call[t].op, out))
  /\ timer' = [timer EXCEPT ![t] = @ /\ out.kind = "rejected"]
  /\ IF out.kind = "resolved" /\ clean[t] /\ snap[t].cache
     THEN prev' = MapSet(prev, snap[t].url, out.value)
     ELSE prev' = prev
  /\ UNCHANGED <<clean, sinceClear>>

\* A loadJSON call settles: both loaders have cleared the timer by then.
FetchSettled(t, out) ==
  /\ Settled(t, out, getterSettle(call[t].op, out))
  /\ timer' = [timer EXCEPT ![t] = FALSE]
  /\ IF out.kind = "resolved" /\ clean[t] /\ snap[t].cache
     THEN prev' = MapSet(prev, snap[t].url, out.value)
     ELSE prev' = prev
  /\ UNCHANGED <<clean, sinceClear>>

\* A getter runs up to its first await: getConfig(), fullPath, the cache
\* check, then setTimeout and fetch(). c is the content of the Map at that
\* moment.
BeginLoad(t, op, cc, sc, c) ==
  /\ call' = [call EXCEPT ![t] = [op |-> op, cc |-> cc, sc |-> sc]]
  /\ cache' = c
  /\ UNCHANGED <<envVars, fsVars, path, currentConfig, clean, aborted>>
  /\ LET url == PathOf(currentConfig.baseURL, op, cc, sc)
     IN  /\ snap' = [snap EXCEPT ![t] = [url |-> url, cache |-> currentConfig.cache,
                                         headers |-> currentConfig.headers]]
         /\ sinceClear' = IF sinceClear.cleared
                          THEN [sinceClear EXCEPT !.urls = @ \cup {url}]
                          ELSE sinceClear
         /\ IF CacheHit(currentConfig, url)
            THEN /\ Settled(t, Resolved(c[url]), getterSettle(op, Resolved(c[url])))
                 /\ prev' = IF currentConfig.cache THEN MapSet(prev, url, c[url]) ELSE prev
                 /\ UNCHANGED <<timer, fetched>>
            ELSE /\ pc' = [pc EXCEPT ![t] = "fetching"]
                 /\ timer' = [timer EXCEPT ![t] = TRUE]
                 /\ fetched' = [fetched EXCEPT ![t] = TRUE]
                 /\ UNCHANGED <<loadResult, result, prev>>

\* A caller invokes a getter.
FetchCall(t, op, cc, sc) ==
  /\ pkg \in {"browser", "browserAlt"} /\ pc[t] = "idle" /\ calls < MaxCalls
  /\ calls' = calls + 1
  /\ BeginLoad(t, op, cc, sc, cache)
  /\ UNCHANGED agg

\* fetch() resolves with a response: ok iff the origin holds the document.
FetchRespond(t) ==
  /\ pc[t] = "fetching"
  /\ UNCHANGED <<envVars, fsVars, agg, calls, call, path, currentConfig, cache, snap, fetched,
                 aborted>>
  /\ IF ServerDoc(snap[t].url) = NoFile
     THEN FetchSettled(t, Rejected(LoadError("http")))
     ELSE /\ pc' = [pc EXCEPT ![t] = "reading"]
          /\ timer' = [timer EXCEPT ![t] = TimerAfterResponse(timer[t])]
          /\ UNCHANGED <<loadResult, result, histVars>>

\* A loader that remembers a failed request: the rejection leaves a null
\* document under the URL.
FetchNetworkErrorStored(t) ==
  /\ pc[t] = "fetching"
  /\ UNCHANGED <<envVars, fsVars, agg, calls, call, path, currentConfig, snap, fetched,
                 aborted>>
  /\ cache' = MapSet(cache, snap[t].url, Null)
  /\ FetchSettled(t, Rejected(LoadError("network")))

\* fetch() rejects: the network failed.
FetchNetworkError(t) ==
  /\ pc[t] = "fetching"
  /\ UNCHANGED <<envVars, fsVars, agg, calls, call, path, currentConfig, cache, snap, fetched,
                 aborted>>
  /\ FetchSettled(t, Rejected(LoadError("network")))

\* The timer fires: controller.abort() rejects the pending fetch or body read
\* with AbortError, which the catch clause turns into the timeout error.
TimerFire(t) ==
  /\ timer[t] /\ pc[t] \in {"fetching", "reading"}
  /\ aborted' = [aborted EXCEPT ![t] = TRUE]
  /\ UNCHANGED <<envVars, fsVars, agg, calls, call, path, currentConfig, cache, snap, fetched>>
  /\ FetchSettled(t, Rejected(LoadError("AbortError")))

\* response.json() settles: the parsed document, or a SyntaxError when the
\* body is not JSON.
BodyDone(t) ==
  /\ pc[t] = "reading"
  /\ UNCHANGED <<envVars, fsVars, agg, calls, call, path, currentConfig, snap, fetched, aborted>>
  /\ \E wellFormed \in BOOLEAN :
       IF wellFormed
       THEN /\ cache' = CacheStore(cache, snap[t], ServerDoc(snap[t].url))
            /\ FetchSettled(t, Resolved(ServerDoc(snap[t].url)))
       ELSE /\ cache' = cache
            /\ FetchSettled(t, Rejected(LoadError("SyntaxError")))

\* ---------------------------------------------------------------- browser package: utilities and aggregates
UpperCase == <<"A", "B", "C", "D", "E", "F", "G", "H", "I", "J", "K", "L", "M",
               "N", "O", "P", "Q", "R", "S", "T", "U", "V", "W", "X", "Y", "Z">>
LowerCase == <<"a", "b", "c", "d", "e", "f", "g", "h", "i", "j", "k", "l", "m",
               "n", "o", "p", "q", "r", "s", "t", "u", "v", "w", "x", "y", "z">>

\* String.prototype.toLowerCase
toLowerCase(s) ==
  [i \in DOMAIN s |->
     IF \E k \in DOMAIN UpperCase : UpperCase[k] = s[i]
     THEN LowerCase[CHOOSE k \in DOMAIN UpperCase : UpperCase[k] = s[i]]
     ELSE s[i]]

\* String.prototype.includes
includes(s, sub) ==
  \E i \in 0..(Len(s) - Len(sub)) : SubSeq(s, i + 1, i + Len(sub)) = sub

\* Values other than documents.
Bool(b) == [kind |-> "bool", val |-> b]
Str(s) == [kind |-> "string", val |-> s]

\* An array method applied to an array: ret is what the method returns, self
\* the content of the receiver afterwards.
\* A filter that compacts the receiver itself and returns it.
filterByNameInPlace(cities, lowerSearchTerm) ==
  LET kept == SelectSeq(cities, LAMBDA city : includes(toLowerCase(city.name), lowerSearchTerm))
  IN  [ret |-> kept, self |-> kept]

\* A filter that compares the names as they are.
filterByNameCaseSensitive(cities, lowerSearchTerm) ==
  [ret |-> SelectSeq(cities, LAMBDA city : includes(city.name, lowerSearchTerm)),
   self |-> cities]

\* cities.filter((city) => city.name.toLowerCase().includes(lowerSearchTerm)):
\* a new array, the receiver untouched.
filterByName(cities, lowerSearchTerm) ==
  [ret |-> SelectSeq(cities, LAMBDA city : includes(toLowerCase(city.name), lowerSearchTerm)),
   self |-> cities]

\* cities.find((c) => c.id === cityId); return city || null
findById(cities, cityId) ==
  LET hits == SelectSeq(cities, LAMBDA c : c.id = cityId)
  IN  [ret |-> IF hits = <<>> THEN Null ELSE Obj(hits[1]), self |-> cities]

\* records.find((r) => r.iso2 === code): the first record with the code, Null
\* for undefined.
findByCode(records, code) ==
  LET hits == SelectSeq(records, LAMBDA r : r.iso2 = code)
  IN  IF hits = <<>> THEN Null ELSE Obj(hits[1])

\* A test that only asks whether there are records at all.
someRecord(records, code) == records # <<>>

\* records.some((r) => r.iso2 === code)
someByCode(records, code) == \E i \in DOMAIN records : records[i].iso2 = code

\* record ? record.name : null
nameOrNull(found) == IF found = Null THEN Null ELSE Str(found.rec.name)

\* An append that puts the new elements in front.
pushFront(allCities, cities) ==
  [ret |-> Len(allCities) + Len(cities), self |-> cities \o allCities]

\* allCities.push(...cities): appends to the receiver; the spread argument is
\* only read.
push(allCities, cities) == [ret |-> Len(allCities) + Len(cities), self |-> allCities \o cities]

\* The array a getter handed to task t is the object the Map holds under the
\* task's URL: loadJSON returns cache.get(fullPath), or the data it has just
\* stored. (A concurrent load of the same URL may since have replaced the
\* entry by an equal array; the model does not tell the two apart.)
Aliased(t) ==
  /\ loadResult[t].kind = "resolved" /\ snap[t].cache /\ MapHas(cache, snap[t].url)

\* The Map after a method left `self` in the array task t received.
WriteBack(t, self) ==
  IF Aliased(t) THEN [cache EXCEPT ![snap[t].url] = Arr(self)] ELSE cache

\* The getter each utility or aggregate awaits first, and the phase that
\* names it.
FirstGetter(uop) ==
  IF uop \in {"isValidCountryCode", "getCountryNameByCode", "getAllCitiesInWorld"}
  THEN "getCountries"
  ELSE IF uop \in {"isValidStateCode", "getStateByCode", "getStateNameByCode",
                   "getAllCitiesOfCountry"}
  THEN "getStatesOfCountry"
  ELSE "getCitiesOfState"

FirstPhase(uop) ==
  IF uop = "getAllCitiesInWorld" THEN "countries"
  ELSE IF uop = "getAllCitiesOfCountry" THEN "states"
  ELSE "single"

\* The operation calls a getter of its package, which runs up to its first
\* await.
BeginGetter(t, op, cc, sc) ==
  IF pkg = "server" THEN BeginFs(t, op, cc, sc) ELSE BeginLoad(t, op, cc, sc, cache)

\* A caller of either package invokes a getter directly.
GetterCall(t, op, cc, sc) ==
  /\ pc[t] = "idle" /\ calls < MaxUtilCalls
  /\ calls' = calls + 1
  /\ UNCHANGED agg
  /\ BeginGetter(t, op, cc, sc)

\* A caller invokes a utility or an aggregate: the operation runs up to the
\* first await of its first getter.
UtilCall(t, uop, cc, sc, arg) ==
  /\ pc[t] = "idle" /\ calls < MaxUtilCalls
  /\ calls' = calls + 1
  /\ agg' = [agg EXCEPT ![t] = [NoAgg EXCEPT !.op = uop, !.phase = FirstPhase(uop),
                                              !.cc = cc, !.sc = sc, !.arg = arg]]
  /\ BeginGetter(t, FirstGetter(uop), cc, sc)

\* The operation settles: the caller's promise resolves or rejects with out.
UtilFinish(t, a, out, c) ==
  /\ agg' = [agg EXCEPT ![t] = [a EXCEPT !.phase = "finished"]]
  /\ pc' = [pc EXCEPT ![t] = "done"]
  /\ result' = [result EXCEPT ![t] = out]
  /\ cache' = c
  /\ UNCHANGED <<envVars, fsVars, calls, call, path, loadResult, currentConfig, snap,
                 timer, aborted, fetched, histVars>>

\* getAllCitiesInWorld continues its for-loop over the countries: the next
\* getAllCitiesOfCountry call (which first awaits getStatesOfCountry), or
\* "return allCities".
NextCountry(t, a, outer, all) ==
  IF outer = <<>>
  THEN UtilFinish(t, [a EXCEPT !.all = all, !.outer = <<>>], Resolved(Arr(all)), cache)
  ELSE /\ agg' = [agg EXCEPT ![t] = [a EXCEPT !.phase = "states", !.cc = outer[1],
                                                 !.outer = Tail(outer), !.all = all,
                                                 !.todo = <<>>, !.items = <<>>, !.par = <<>>,
                                                 !.states = <<>>]]
       /\ BeginGetter(t, "getStatesOfCountry", outer[1], <<>>)
       /\ UNCHANGED calls

\* getAllCitiesOfCountry returns allCities: to the caller, or into the
\* for-loop of getAllCitiesInWorld.
CountryDone(t, a, allCities) ==
  IF a.op = "getAllCitiesOfCountry"
  THEN UtilFinish(t, [a EXCEPT !.items = allCities, !.todo = <<>>], Resolved(Arr(allCities)), cache)
  ELSE NextCountry(t, a, a.outer, push(a.all, allCities).self)

\* The sequential getAllCitiesOfCountry continues its for-loop over the
\* states: the next getCitiesOfState call, or its return.
UtilLoop(t, a, todo, allCities) ==
  IF todo = <<>>
  THEN CountryDone(t, a, allCities)
  ELSE /\ agg' = [agg EXCEPT ![t] = [a EXCEPT !.phase = "cities", !.todo = Tail(todo),
                                                 !.items = allCities]]
       /\ BeginGetter(t, "getCitiesOfState", a.cc, todo[1])
       /\ UNCHANGED calls

\* One getCitiesOfState call of states.map(...) runs up to its first await:
\* the cache check of loadJSON against the Map as it is.
ParStart(cc, sc) ==
  LET url == PathOf(currentConfig.baseURL, "getCitiesOfState", cc, sc)
  IN  IF CacheHit(currentConfig, url)
      THEN [sc |-> sc, sn |-> [url |-> url, cache |-> currentConfig.cache], st |-> "settled",
            items |-> getterSettle("getCitiesOfState", Resolved(cache[url])).value.items]
      ELSE [sc |-> sc, sn |-> [url |-> url, cache |-> currentConfig.cache], st |-> "flight",
            items |-> <<>>]

\* A getAllCitiesOfCountry that starts the call for its first state only.
ParBeginFirst(t, a, todo) ==
  /\ agg' = [agg EXCEPT ![t] = [a EXCEPT !.phase = "par", !.todo = <<>>, !.items = <<>>,
                                        !.par = <<ParStart(a.cc, todo[1])>>]]
  /\ pc' = [pc EXCEPT ![t] = "par"]
  /\ sinceClear' = sinceClear
  /\ UNCHANGED <<envVars, fsVars, calls, call, path, loadResult, result, currentConfig, cache,
                 snap, timer, aborted, fetched, clean, prev>>

\* The Promise.all getAllCitiesOfCountry starts every getCitiesOfState call
\* at once and awaits them all.
ParBegin(t, a, todo) ==
  /\ agg' = [agg EXCEPT ![t] = [a EXCEPT !.phase = "par", !.todo = <<>>, !.items = <<>>,
                                        !.par = [i \in DOMAIN todo |-> ParStart(a.cc, todo[i])]]]
  /\ pc' = [pc EXCEPT ![t] = "par"]
  /\ sinceClear' = IF sinceClear.cleared
                   THEN [sinceClear EXCEPT !.urls = @ \cup
                           {PathOf(currentConfig.baseURL, "getCitiesOfState", a.cc, todo[i]) :
                              i \in DOMAIN todo}]
                   ELSE sinceClear
  /\ UNCHANGED <<envVars, fsVars, calls, call, path, loadResult, result, currentConfig, cache,
                 snap, timer, aborted, fetched, clean, prev>>

\* for (const cities of citiesArrays) allCities.push(...cities)
RECURSIVE Flatten(_, _, _)
Flatten(par, i, allCities) ==
  IF i > Len(par) THEN allCities
  ELSE Flatten(par, i + 1, push(allCities, par[i].items).self)

\* The getter an operation awaited has settled and the operation runs up to
\* its next await or to its return. Only getCountries can have rejected; the
\* rejection passes through the operation to its caller.
UtilStep(t) ==
  /\ pc[t] = "done" /\ agg[t].phase \in {"single", "countries", "states", "cities"}
  /\ LET a == agg[t]
         got == result[t].value.items
     IN  IF result[t].kind = "rejected"
         THEN UtilFinish(t, a, result[t], cache)
         ELSE IF a.op = "searchCitiesByName"
         THEN LET f == filterByName(got, toLowerCase(a.arg))
              IN  UtilFinish(t, a, Resolved(Arr(f.ret)), WriteBack(t, f.self))
         ELSE IF a.op = "getCityById"
         THEN LET f == findById(got, a.arg[1])
              IN  UtilFinish(t, a, Resolved(f.ret), WriteBack(t, f.self))
         ELSE IF a.op \in {"isValidCountryCode", "isValidStateCode"}
         THEN UtilFinish(t, a, Resolved(Bool(someByCode(got, a.arg))), cache)
         ELSE IF a.op = "getStateByCode"
         THEN UtilFinish(t, a, Resolved(findByCode(got, a.arg)), cache)
         ELSE IF a.op \in {"getCountryNameByCode", "getStateNameByCode"}
         THEN UtilFinish(t, a, Resolved(nameOrNull(findByCode(got, a.arg))), cache)
         ELSE IF a.phase = "countries"
         THEN NextCountry(t, a, [i \in DOMAIN got |-> got[i].iso2], <<>>)
         ELSE IF a.phase = "cities"
         THEN UtilLoop(t, [a EXCEPT !.par = Append(@, [sc |-> call[t].sc, sn |-> snap[t],
                                                       st |-> "settled", items |-> got])],
                       a.todo, push(a.items, got).self)
         ELSE LET codes == [i \in DOMAIN got |-> got[i].iso2]
              IN  IF pkg = "browserAlt" /\ got # <<>>
                  THEN ParBegin(t, [a EXCEPT !.states = codes], codes)
                  ELSE UtilLoop(t, [a EXCEPT !.states = codes], codes, <<>>)

\* One of the getCitiesOfState calls under Promise.all settles: its loadJSON
\* resolved with the document (and stored it), or failed and the getter
\* answered [].
ParSettle(t, i) ==
  /\ pc[t] = "par" /\ i \in DOMAIN agg[t].par /\ agg[t].par[i].st = "flight"
  /\ LET sub == agg[t].par[i]
         doc == ServerDoc(sub.sn.url)
     IN  \E ok \in BOOLEAN :
           LET out == IF ok /\ doc # NoFile THEN Resolved(doc) ELSE Rejected(LoadError("http"))
           IN  /\ agg' = [agg EXCEPT ![t].par[i].st = "settled",
                                     ![t].par[i].items =
                                        getterSettle("getCitiesOfState", out).value.items]
               /\ cache' = IF out.kind = "resolved" THEN CacheStore(cache, sub.sn, doc) ELSE cache
               /\ prev' = IF out.kind = "resolved" /\ clean[t] /\ sub.sn.cache
                          THEN MapSet(prev, sub.sn.url, doc) ELSE prev
  /\ UNCHANGED <<envVars, fsVars, calls, pc, call, path, loadResult, result, currentConfig,
                 snap, timer, aborted, fetched, clean, sinceClear>>

\* Promise.all resolves once every call has settled; the arrays are flattened
\* in the order of the states.
ParJoin(t) ==
  /\ pc[t] = "par" /\ \A i \in DOMAIN agg[t].par : agg[t].par[i].st = "settled"
  /\ CountryDone(t, agg[t], Flatten(agg[t].par, 1, <<>>))

\* clearCache(): cache.clear()
ClearCache ==
  /\ ApiCall
  /\ cache' = EmptyMap
  /\ sinceClear' = [cleared |-> TRUE, urls |-> {}]
  /\ Disturb
  /\ UNCHANGED currentConfig

\* The caller takes the settled result; the task is free for its next call.
Return(t) ==
  /\ pc[t] = "done" /\ agg[t].phase \in {"none", "finished"}
  /\ agg' = [agg EXCEPT ![t] = NoAgg]
  /\ listed' = [listed EXCEPT ![t] = {}]
  /\ pc' = [pc EXCEPT ![t] = "idle"]
  /\ call' = [call EXCEPT ![t] = NoCall]
  /\ path' = [path EXCEPT ![t] = NoPath]
  /\ reads' = [reads EXCEPT ![t] = <<>>]
  /\ from' = [from EXCEPT ![t] = 0]
  /\ loadResult' = [loadResult EXCEPT ![t] = Pending]
  /\ result' = [result EXCEPT ![t] = Pending]
  /\ snap' = [snap EXCEPT ![t] = NoSnap]
  /\ fetched' = [fetched EXCEPT ![t] = FALSE]
  /\ clean' = [clean EXCEPT ![t] = TRUE]
  /\ aborted' = [aborted EXCEPT ![t] = FALSE]
  /\ UNCHANGED <<envVars, calls, countryDirMap, stateDirMaps, currentConfig, cache, timer,
                 prev, sinceClear>>

\* ---------------------------------------------------------------- specification
\* Installation layouts: which candidate roots hold the tree.
Layouts ==
  [Roots -> {"absent", "valid"}] \cup
  { [r \in Roots |-> <<"malformed", "valid", "absent">>[r]],
    [r \in Roots |-> <<"absent", "malformed", "valid">>[r]] }

InitTasks ==
  /\ calls = 0
  /\ pc = [t \in Tasks |-> "idle"]
  /\ call = [t \in Tasks |-> NoCall]
  /\ path = [t \in Tasks |-> NoPath]
  /\ reads = [t \in Tasks |-> <<>>]
  /\ from = [t \in Tasks |-> 0]
  /\ loadResult = [t \in Tasks |-> Pending]
  /\ result = [t \in Tasks |-> Pending]
  /\ countryDirMap = [built |-> FALSE, map |-> EmptyMap]
  /\ stateDirMaps = EmptyMap
  /\ currentConfig = defaultConfig
  /\ cache = EmptyMap
  /\ listed = [t \in Tasks |-> {}]
  /\ agg = [t \in Tasks |-> NoAgg]
  /\ snap = [t \in Tasks |-> NoSnap]
  /\ timer = [t \in Tasks |-> FALSE]
  /\ aborted = [t \in Tasks |-> FALSE]
  /\ fetched = [t \in Tasks |-> FALSE]
  /\ clean = [t \in Tasks |-> TRUE]
  /\ prev = EmptyMap
  /\ sinceClear = [cleared |-> FALSE, urls |-> {}]

\* The server package in a Node host or bundled into a browser host.
InitFs ==
  /\ pkg = "server"
  /\ source \in Sources
  /\ \/ host = "node" /\ roots \in Layouts
     \/ host = "browser" /\ roots \in {l \in Layouts : l[2] = "absent" /\ l[3] = "absent"}
  /\ InitTasks

\* The browser package (either build of its loader) in a browser host.
InitFetch ==
  /\ pkg \in {"browser", "browserAlt"}
  /\ source = SrcPlain
  /\ host = "browser"
  /\ roots = [r \in Roots |-> "absent"]
  /\ InitTasks

NextFs ==
  \/ \E t \in Tasks : FsCall(t, "getCountries", <<>>, <<>>)
  \/ \E t \in Tasks, cc \in CountryCodes(source) : FsCall(t, "getCountryByCode", cc, <<>>)
  \/ \E t \in Tasks, cc \in CountryCodes(source) : FsCall(t, "getStatesOfCountry", cc, <<>>)
  \/ \E t \in Tasks, cc \in CountryCodes(source), sc \in StateCodes(source) :
       FsCall(t, "getCitiesOfState", cc, sc)
  \/ \E t \in Tasks : FsScanCountry(t)
  \/ \E t \in Tasks : FsScanState(t)
  \/ \E t \in Tasks : FsLoad(t)
  \/ \E t \in Tasks : FsImport(t)
  \/ \E t \in Tasks : Return(t)

NextFetch ==
  \/ \E t \in Tasks : FetchCall(t, "getCountries", <<>>, <<>>)
  \/ \E t \in Tasks, cc \in FetchCountryCodes : FetchCall(t, "getCountryByCode", cc, <<>>)
  \/ \E t \in Tasks, cc \in FetchCountryCodes : FetchCall(t, "getStatesOfCountry", cc, <<>>)
  \/ \E t \in Tasks : FetchCall(t, "getCitiesOfState", SrcPlain[1].iso2, SrcPlain[1].states[1].iso2)
  \/ \E t \in Tasks : FetchRespond(t)
  \/ \E t \in Tasks : FetchNetworkError(t)
  \/ \E t \in Tasks : TimerFire(t)
  \/ \E t \in Tasks : BodyDone(t)
  \/ \E options \in LoaderOptions : Configure(options)
  \/ ResetConfiguration
  \/ ClearCache
  \/ \E t \in Tasks : Return(t)

SpecFs == InitFs /\ [][NextFs]_vars

SpecFetch == InitFetch /\ [][NextFetch]_vars

\* Either package.
Init == InitFs \/ InitFetch

Next == NextFs \/ NextFetch

Spec == Init /\ [][Next]_vars

\* Either package with its utilities and aggregate operations: the browser
\* package, or the server package in a Node host with its data files present,
\* missing, or unparsable in the module-relative root.
InitUtil ==
  \/ /\ pkg \in {"browser", "browserAlt"} /\ source \in Sources
     /\ host = "browser" /\ roots = [r \in Roots |-> "absent"]
     /\ InitTasks
  \/ /\ InitFs /\ host = "node"
     /\ roots \in { [r \in Roots |-> "valid"], [r \in Roots |-> "absent"],
                    [r \in Roots |-> <<"malformed", "valid", "absent">>[r]] }

\* The aggregates start from either package on a dataset with or without a
\* second populated state.
InitAgg ==
  /\ pkg \in {"server", "browser", "browserAlt"} /\ source \in {SrcPlain, SrcTwo}
  /\ \/ pkg = "server" /\ host = "node"
        /\ roots \in { [r \in Roots |-> "valid"], [r \in Roots |-> "absent"],
                       [r \in Roots |-> <<"malformed", "valid", "absent">>[r]] }
     \/ pkg # "server" /\ host = "browser" /\ roots = [r \in Roots |-> "absent"]
  /\ InitTasks

\* The steps of the getters under an operation, and the operation's own steps.
NextGetterSteps ==
  \/ \E t \in Tasks : UtilStep(t)
  \/ \E t \in Tasks : FsScanCountry(t)
  \/ \E t \in Tasks : FsScanState(t)
  \/ \E t \in Tasks : FsLoad(t)
  \/ \E t \in Tasks : FsImport(t)
  \/ \E t \in Tasks : FetchRespond(t)
  \/ \E t \in Tasks : FetchNetworkError(t)
  \/ \E t \in Tasks : TimerFire(t)
  \/ \E t \in Tasks : BodyDone(t)
  \/ \E t \in Tasks : Return(t)

\* Callers of the per-state utilities and of getAllCitiesOfCountry.
NextUtil ==
  \/ \E t \in Tasks, cc \in {source[1].iso2, source[Len(source)].iso2, AbsentCode} :
       GetterCall(t, "getCountryByCode", cc, <<>>)
  \/ \E t \in Tasks :
       GetterCall(t, "getCitiesOfState", source[1].iso2, DirCode(source[1].states[1].iso2))
  \/ \E t \in Tasks, uop \in {"isValidStateCode", "getStateByCode", "getStateNameByCode"},
        sc \in {source[1].states[1].iso2, AbsentCode} : UtilCall(t, uop, source[1].iso2, <<>>, sc)
  \/ \E t \in Tasks, term \in {<<"L">>, <<"s", "f">>, <<"x">>} :
       UtilCall(t, "searchCitiesByName", source[1].iso2, source[1].states[1].iso2, term)
  \/ \E t \in Tasks :
       UtilCall(t, "searchCitiesByName", source[1].iso2, AbsentCode, <<"L">>)
  \/ \E t \in Tasks, id \in {SrcPlain[1].states[1].cities[1].id, 999} :
       UtilCall(t, "getCityById", source[1].iso2, source[1].states[1].iso2, <<id>>)
  \/ NextGetterSteps

\* ---------------------------------------------------------------- timezone package
\* generateTimezoneData, the loop over countries.json from country i on: a
\* country whose meta.json does not exist is skipped; the others add their
\* zones to allTimezones (unless listed with that country already) and write
\* their by-country document.
RECURSIVE generateTimezoneData(_, _, _)
generateTimezoneData(src, i, out) ==
  LET listed_(tz) == \E j \in DOMAIN out.allTimezones :
                       /\ out.allTimezones[j].zoneName = tz.zoneName
                       /\ out.allTimezones[j].countryCode = tz.countryCode
      write(countryTimezones) ==
        [allTimezones |-> out.allTimezones
                            \o SelectSeq(countryTimezones, LAMBDA tz : ~listed_(tz)),
         byCountry |-> MapSet(out.byCountry, src[i].iso2, countryTimezones)]
      process(countryMeta) ==
        IF countryMeta = NoFile THEN out
        ELSE write([k \in DOMAIN countryMeta.rec.timezones |->
                      [zoneName |-> countryMeta.rec.timezones[k], countryCode |-> src[i].iso2,
                       gmtOffset |-> IF countryMeta.rec.timezones[k] = "tzA"
                                     THEN -18000 ELSE 19800]])
  IN  IF i > Len(src) THEN out
      ELSE generateTimezoneData(src, i + 1,
             process(generateSplitData(src, FsPath(<<safeDirName(src[i].name, src[i].iso2)>>,
                                                   "meta"))))

\* The data directory of the timezone package for each dataset: timezones.json
\* (allTimezones) and the by-country documents, by country code.
TzData ==
  [src \in {SrcPlain, SrcTwo} |->
     generateTimezoneData(src, 1, [allTimezones |-> <<>>, byCountry |-> EmptyMap])]

\* A formatter that always writes the '+' sign.
formatGMTOffsetUnsigned(offsetSeconds) ==
  LET abs == IF offsetSeconds < 0 THEN -offsetSeconds ELSE offsetSeconds
      digit == <<"0", "1", "2", "3", "4", "5", "6", "7", "8", "9">>
      two(n) == <<digit[((n \div 10) % 10) + 1], digit[(n % 10) + 1]>>
  IN  <<"U", "T", "C", "+">> \o two(abs \div 3600) \o <<":">> \o two((abs % 3600) \div 60)

\* formatGMTOffset: hours and minutes of Math.abs(offsetSeconds) with
\* Math.floor, each through toString().padStart(2, '0'), after 'UTC' and the
\* sign.
formatGMTOffset(offsetSeconds) ==
  LET abs == IF offsetSeconds < 0 THEN -offsetSeconds ELSE offsetSeconds
      hours == abs \div 3600
      minutes == (abs % 3600) \div 60
      sign == IF offsetSeconds >= 0 THEN "+" ELSE "-"
      digit == <<"0", "1", "2", "3", "4", "5", "6", "7", "8", "9">>
      RECURSIVE toString(_)
      toString(n) == IF n < 10 THEN <<digit[n + 1]>>
                     ELSE toString(n \div 10) \o <<digit[(n % 10) + 1]>>
      padStart(s) == IF Len(s) < 2 THEN <<"0">> \o s ELSE s
  IN  <<"U", "T", "C", sign>> \o padStart(toString(hours)) \o <<":">>
        \o padStart(toString(minutes))

\* Time utilities that report an unknown timezone by value.
TzOutcomeByValue(uop, arg, now, isDST, known) ==
  IF uop = "getTimezonesByCountry" THEN Resolved(Arr(<<>>)) ELSE Resolved(Null)

\* How a call of the timezone package settles. now and isDST are what the
\* clock and the Intl data of the host give, known whether Intl accepts the
\* zone name.
TzOutcome(uop, arg, now, isDST, known) ==
  LET getTimezoneInfo(hits) ==
        IF hits = <<>> THEN Resolved(Null)
        ELSE IF ~known THEN Rejected("RangeError")
        ELSE Resolved(Obj([timezone |-> hits[1].zoneName, currentTime |-> now,
                           isDST |-> isDST, gmtOffset |-> hits[1].gmtOffset]))
      orThrow(info) ==
        IF info.kind = "rejected" THEN info
        ELSE IF info.value = Null THEN Rejected("Timezone not found")
        ELSE IF uop = "getCurrentTime" THEN Resolved(Str(info.value.rec.currentTime))
        ELSE Resolved([kind |-> "number", val |-> info.value.rec.gmtOffset])
      byName(hits) ==
        IF uop = "isValidTimezone" THEN Resolved(Bool(hits # <<>>))
        ELSE IF uop = "getTimezoneInfo" THEN getTimezoneInfo(hits)
        ELSE orThrow(getTimezoneInfo(hits))
      byCountry(docs) ==
        IF MapHas(docs, arg) THEN Resolved(Arr(docs[arg])) ELSE Resolved(Arr(<<>>))
  IN  IF uop = "getTimezonesByCountry" THEN byCountry(TzData[source].byCountry)
      ELSE IF uop = "formatGMTOffset" THEN Resolved(Str(formatGMTOffset(arg)))
      ELSE byName(SelectSeq(TzData[source].allTimezones, LAMBDA tz : tz.zoneName = arg))

\* A caller invokes an operation of the timezone package; the package keeps
\* no state between calls, so the call settles by its own.
TzCall(t, uop, arg) ==
  /\ pkg = "timezones" /\ pc[t] = "idle" /\ calls < MaxUtilCalls
  /\ calls' = calls + 1
  /\ LET timed == uop \in {"getTimezoneInfo", "getCurrentTime", "getGMTOffset"}
     IN  \E now \in (IF timed THEN {"T1", "T2"} ELSE {"T1"}),
            isDST, known \in (IF timed THEN BOOLEAN ELSE {TRUE}) :
           result' = [result EXCEPT ![t] = TzOutcome(uop, arg, now, isDST, known)]
  /\ agg' = [agg EXCEPT ![t] = [NoAgg EXCEPT !.op = uop, !.phase = "finished", !.arg = <<arg>>]]
  /\ pc' = [pc EXCEPT ![t] = "done"]
  /\ UNCHANGED <<envVars, fsVars, call, path, loadResult, fetchVars, histVars>>

InitTz ==
  /\ pkg = "timezones" /\ source \in {SrcPlain, SrcTwo}
  /\ host = "node" /\ roots = [r \in Roots |-> "valid"]
  /\ InitTasks

\* Callers of the timezone package: zone names and country codes the data has
\* or has not, and offsets: every whole minute within two hours of UTC, every
\* quarter of an hour within a day, the last minute of a day, and a few that
\* are not whole minutes or not within a day.
NextTz ==
  \/ \E t \in Tasks, uop \in {"getTimezoneInfo", "isValidTimezone", "getCurrentTime", "getGMTOffset"},
        name \in {"tzA", "tzB", "tzX"} : TzCall(t, uop, name)
  \/ \E t \in Tasks, cc \in {source[1].iso2, source[2].iso2, AbsentCode} :
       TzCall(t, "getTimezonesByCountry", cc)
  \/ /\ pc[1] = "idle" /\ calls < MaxUtilCalls
     /\ \E o \in {m * 60 : m \in -120..120} \cup {q * 900 : q \in -95..95}
                    \cup {-86340, 86340} \cup {30, -59, -3601, 86400, -360000} :
          TzCall(1, "formatGMTOffset", o)
  \/ \E t \in Tasks : Return(t)

SpecTz == InitTz /\ [][NextTz]_vars

\* Callers of getCountries and of the operations built on it, while the
\* first caller may run the aggregates.
NextAgg ==
  \/ Configure([baseURL |-> MissingOrigin])
  \/ \E t \in Tasks : GetterCall(t, "getCountries", <<>>, <<>>)
  \/ \E t \in Tasks, uop \in {"isValidCountryCode", "getCountryNameByCode"},
        cc \in {source[1].iso2, AbsentCode} : UtilCall(t, uop, <<>>, <<>>, cc)
  \/ \E cc \in {source[1].iso2, AbsentCode} : UtilCall(1, "getAllCitiesOfCountry", cc, <<>>, <<>>)
  \/ UtilCall(1, "getAllCitiesInWorld", <<>>, <<>>, <<>>)
  \/ \E t \in Tasks, i \in 1..2 : ParSettle(t, i)
  \/ \E t \in Tasks : ParJoin(t)
  \/ NextGetterSteps

SpecAgg == InitAgg /\ [][NextAgg]_vars

\* The browser package under reconfiguration: callers set the origin, the
\* cache switch, the timeout and request headers, reset them, and load the
\* country list meanwhile.
NextConfig ==
  \/ \E options \in LoaderOptions \cup HeaderOptions : Configure(options)
  \/ ResetConfiguration
  \/ \E t \in Tasks : FetchCall(t, "getCountries", <<>>, <<>>)
  \/ \E t \in Tasks : FetchRespond(t)
  \/ \E t \in Tasks : FetchNetworkError(t)
  \/ \E t \in Tasks : TimerFire(t)
  \/ \E t \in Tasks : BodyDone(t)
  \/ \E t \in Tasks : Return(t)

SpecConfig == InitFetch /\ [][NextConfig]_vars

\* Callers that only configure: every kind of options object, and resets.
NextOptions ==
  \/ \E options \in LoaderOptions \cup HeaderOptions \cup UndefinedOptions : Configure(options)
  \/ ResetConfiguration

SpecOptions == InitFetch /\ [][NextOptions]_vars

SpecUtil == InitUtil /\ [][NextUtil]_vars

\* The timer callback and the rejection of an aborted request are scheduled
\* by the event loop once the delay has elapsed; nothing obliges the network
\* to answer.
LiveFetch == SpecFetch /\ \A t \in Tasks : WF_vars(TimerFire(t))

\* ---------------------------------------------------------------- properties
Getters == {"getCountryByCode", "getStatesOfCountry", "getCitiesOfState"}

IsEmptyArray(v) == v.kind = "array" /\ v.items = <<>>
SameOutcome(a, b) ==
  /\ a.kind = b.kind
  /\ a.kind = "rejected" => a.error = b.error
  /\ a.kind = "resolved" => a.value = b.value

\* A directory name of the form <label>-<code>.
NamesCode(dir, code) ==
  Len(dir) > Len(code) /\ SubSeq(dir, Len(dir) - Len(code), Len(dir)) = <<"-">> \o code

CountryInTree(cc) == \E d \in CountryDirs(source) : NamesCode(d, cc)

StateInTree(cc, sc) ==
  \E d \in CountryDirs(source) :
    NamesCode(d, cc) /\ \E sd \in StateDirs(source, d) : NamesCode(sd, sc)

\* The request of task t addresses no document of the tree it is served from.
NoDocumentFor(t) ==
  IF pkg = "server"
  THEN IF call[t].op = "getCitiesOfState" THEN ~StateInTree(call[t].cc, call[t].sc)
       ELSE ~CountryInTree(call[t].cc)
  ELSE ServerDoc(snap[t].url) = NoFile

\* The server package installed as the loader expects it, in a Node host.
Installed == pkg = "server" /\ host = "node" /\ roots[1] = "valid"

\* C1: the three getters never reject, and for a code with no corresponding
\* document getCountryByCode resolves to null and getStatesOfCountry and
\* getCitiesOfState resolve to an empty array.
C1_AbsentCodeNullOrEmpty ==
  \A t \in Tasks :
    (pc[t] = "done" /\ call[t].op \in Getters) =>
      /\ result[t].kind = "resolved"
      /\ NoDocumentFor(t) =>
           IF call[t].op = "getCountryByCode" THEN result[t].value = Null
           ELSE IsEmptyArray(result[t].value)

C1_Witness ==
  \E t \in Tasks :
    /\ pkg = "server" /\ pc[t] = "done" /\ call[t].op = "getCitiesOfState"
    /\ CountryInTree(call[t].cc) /\ ~StateInTree(call[t].cc, call[t].sc)
    /\ MapHas(stateDirMaps, call[t].cc)
    /\ result[t].kind = "resolved" /\ IsEmptyArray(result[t].value)

\* C2: a getter turns only a not-found load failure into null / []; when the
\* load fails with a timeout or a parse error the getter rejects with that
\* same error.
C2_OnlyNotFoundAbsorbed ==
  \A t \in Tasks :
    (pc[t] = "done" /\ call[t].op \in Getters /\ loadResult[t].kind = "rejected") =>
      IF loadResult[t].error \in {"timeout", "SyntaxError"}
      THEN SameOutcome(result[t], loadResult[t])
      ELSE result[t].kind = "resolved"

\* C3: with caching enabled and no configure/reset/clearCache in between, a
\* request whose previous call returned data is answered without a fetch and
\* with that same data.
C3_SecondCallServedFromCache ==
  [][\A t \in Tasks :
       (pc[t] = "idle" /\ pc'[t] # "idle" /\ MapHas(prev, snap'[t].url)) =>
         /\ pc'[t] = "done"
         /\ ~fetched'[t]
         /\ loadResult'[t].kind = "resolved"
         /\ loadResult'[t].value = prev[snap'[t].url]]_vars

C3_Witness ==
  \E t \in Tasks :
    /\ pc[t] = "done" /\ ~fetched[t] /\ calls = 2 /\ currentConfig.cache
    /\ loadResult[t].kind = "resolved"
    /\ MapHas(prev, snap[t].url) /\ prev[snap[t].url] = loadResult[t].value

\* C4: for every country of the root list countries.json, with or without
\* states, getCountryByCode(iso2) returns a record whose iso2 is the code asked.
C4_ListedCountryHasMeta ==
  \A t \in Tasks :
    (Installed /\ pc[t] = "done" /\ call[t].op = "getCountryByCode"
       /\ \E i \in DOMAIN source : countriesList(source)[i].iso2 = call[t].cc) =>
      /\ result[t].kind = "resolved"
      /\ result[t].value.kind = "object"
      /\ result[t].value.rec.iso2 = call[t].cc

SourceStateHasCities(cc, sc) ==
  \E i \in DOMAIN source :
    /\ source[i].iso2 = cc
    /\ \E j \in DOMAIN source[i].states :
         source[i].states[j].iso2 = sc /\ HasCities(source[i].states[j])

\* C5: every city getCitiesOfState(cc, sc) returns has country_code = cc and
\* state_code = sc, and the array is non-empty when the source state has a city.
C5_CitiesMatchQuery ==
  \A t \in Tasks :
    (Installed /\ pc[t] = "done" /\ call[t].op = "getCitiesOfState") =>
      /\ result[t].kind = "resolved"
      /\ result[t].value.kind = "array"
      /\ \A i \in DOMAIN result[t].value.items :
           /\ result[t].value.items[i].country_code = call[t].cc
           /\ result[t].value.items[i].state_code = call[t].sc
      /\ SourceStateHasCities(call[t].cc, call[t].sc) => result[t].value.items # <<>>

\* C6: the first load of a path after clearCache() performs a fetch, and a
\* path loaded successfully after it is again served from the cache.
C6_NextLoadAfterClearFetches ==
  [][\A t \in Tasks :
       (pc[t] = "idle" /\ pc'[t] # "idle" /\ sinceClear.cleared) =>
         /\ snap'[t].url \notin sinceClear.urls => fetched'[t]
         /\ MapHas(prev, snap'[t].url) => ~fetched'[t]]_vars

\* C7: while cache = false is configured, every loadJSON call performs the
\* fetch, whatever the Map holds.
C7_CacheOffAlwaysFetches ==
  [][\A t \in Tasks :
       (pc[t] = "idle" /\ pc'[t] # "idle" /\ ~currentConfig.cache) => fetched'[t]]_vars

\* The candidate root r holds the file of path p.
Holds(r, p) == roots[r] # "absent" /\ generateSplitData(source, p) # NoFile

\* C8: one loadJSON call in a Node host reads the candidates in the order 1,
\* 2, 3, stops at the first one it can read, and returns the document parsed
\* from that candidate.
C8_FirstReadableCandidateWins ==
  \A t \in Tasks :
    (pkg = "server" /\ host = "node" /\ reads[t] # <<>>) =>
      /\ \A i \in DOMAIN reads[t] : reads[t][i] = i
      /\ \A i \in DOMAIN reads[t] : i < Len(reads[t]) => ~Holds(i, path[t])
      /\ IF \E r \in Roots : Holds(r, path[t])
         THEN /\ Holds(Len(reads[t]), path[t])
              /\ from[t] = Len(reads[t])
              /\ roots[from[t]] = "valid" =>
                   /\ pc[t] = "done"
                   /\ loadResult[t].kind = "resolved"
                   /\ loadResult[t].value = generateSplitData(source, path[t])
         ELSE from[t] = 0 /\ Len(reads[t]) = 3

C8_Witness ==
  \E t \in Tasks :
    /\ pkg = "server" /\ host = "node" /\ pc[t] = "done"
    /\ reads[t] = <<1, 2, 3>> /\ from[t] = 3
    /\ ~Holds(1, path[t]) /\ ~Holds(2, path[t])
    /\ loadResult[t].kind = "resolved"

\* C9: a fetch still pending when the timer fires is aborted and the call
\* rejects with the timeout error, which is not the error of a non-OK response.
C9_TimeoutIsDistinctError ==
  \A t \in Tasks :
    /\ pc[t] = "fetching" => timer[t]
    /\ (pc[t] = "done" /\ aborted[t]) =>
         /\ loadResult[t].kind = "rejected" /\ loadResult[t].error = "timeout"
         /\ ServerDoc(snap[t].url) = NoFile => loadResult[t].error # "http"
    /\ (pc[t] = "done" /\ loadResult[t].kind = "rejected" /\ loadResult[t].error = "http") =>
         ~aborted[t] /\ ServerDoc(snap[t].url) = NoFile

C9_Witness ==
  \E t \in Tasks :
    /\ pc[t] = "done" /\ aborted[t] /\ call[t].op = "getCountries"
    /\ result[t].kind = "rejected" /\ result[t].error = "timeout"

\* C10: every loadJSON call that went to the network eventually settles, also
\* when the fetch never settles or the body read never completes.
C10_EveryLoadSettles ==
  \A t \in Tasks : (pc[t] \in {"fetching", "reading"}) ~> (pc[t] = "done")

\* C11: a candidate that is read but whose content is not valid JSON makes
\* loadJSON reject with the parse error; neither another candidate nor the
\* dynamic import is tried after it.
C11_ParseErrorNotRetried ==
  \A t \in Tasks :
    (pkg = "server" /\ host = "node" /\ from[t] # 0 /\ roots[from[t]] = "malformed") =>
      /\ pc[t] = "done"
      /\ loadResult[t] = Rejected("SyntaxError")

\* C12: in a Node host, when no candidate can be read, loadJSON rejects with
\* the loader's own not-found error (code MODULE_NOT_FOUND).
C12_NoCandidateIsNotFoundError ==
  \A t \in Tasks :
    (pkg = "server" /\ host = "node" /\ pc[t] = "done" /\ reads[t] = <<1, 2, 3>> /\ from[t] = 0) =>
      loadResult[t] = Rejected("MODULE_NOT_FOUND")

\* C13: where isNodeEnvironment() is false the filesystem loader starts no fs
\* import, no directory listing and no file read; a failed dynamic import
\* makes loadJSON and getCountries reject with the browser-environment error,
\* and the segment-resolving getters return null / [].
C13_BrowserHostNoFs ==
  \A t \in Tasks :
    (pkg = "server" /\ host = "browser") =>
      /\ reads[t] = <<>>
      /\ pc[t] \notin {"load", "scanCountry", "scanState"}
      /\ ~countryDirMap.built
      /\ (pc[t] = "done" /\ call[t].op = "getCountries" /\ loadResult[t].kind = "rejected") =>
           /\ loadResult[t] = Rejected("browser-environment")
           /\ result[t] = loadResult[t]
      /\ (pc[t] = "done" /\ call[t].op \in Getters) =>
           result[t] = Resolved(NotFoundValue(call[t].op))

C13_Witness ==
  \E t, u \in Tasks :
    /\ pkg = "server" /\ host = "browser"
    /\ pc[t] = "done" /\ call[t].op = "getCountries"
    /\ result[t] = Rejected("browser-environment")
    /\ pc[u] = "done" /\ call[u].op = "getCitiesOfState"
    /\ result[u] = Resolved(Arr(<<>>))

\* C14: in the filesystem loader a request for a document that an earlier
\* loadJSON call has already returned is answered without reaching the file
\* reads (or the import) again.
C14_SecondRequestReadsNoFile ==
  [][\A t \in Tasks :
       (pkg = "server" /\ pc[t] \notin {"load", "import"} /\ pc'[t] # pc[t]
          /\ MapHas(prev, path'[t])) =>
         pc'[t] \notin {"load", "import"}]_vars

\* C15: a resolve call starts listing a scope's directory only if the scope's
\* map is not memoized at that moment, and a directory is listed nowhere but
\* in those listing steps; so once a resolve call for a scope has completed,
\* no resolve call issued later lists that scope again.
C15_MemoizedScopeNotListedAgain ==
  [][\A t \in Tasks :
       /\ (pc[t] # "scanCountry" /\ pc'[t] = "scanCountry") => ~countryDirMap.built
       /\ (pc[t] # "scanState" /\ pc'[t] = "scanState") => call'[t].cc \notin DOMAIN stateDirMaps
       /\ (listed'[t] \ listed[t] # {}) =>
            /\ pc[t] \in {"scanCountry", "scanState"}
            /\ listed'[t] \ listed[t] = {IF pc[t] = "scanCountry" THEN RootScope ELSE call[t].cc}
       /\ countryDirMap.built => countryDirMap'.built
       /\ DOMAIN stateDirMaps \subseteq DOMAIN stateDirMaps']_vars

C15_Witness ==
  \E t \in Tasks :
    /\ pkg = "server" /\ pc[t] = "done" /\ call[t].op = "getCitiesOfState"
    /\ listed[t] = {} /\ loadResult[t].kind = "resolved"
    /\ countryDirMap.built /\ MapHas(stateDirMaps, call[t].cc)

\* The table and the segment a resolve call yields when it runs alone: the
\* directory whose last '-' piece is the code.
AloneMap(dirs) ==
  [c \in {DirCode(d) : d \in dirs} |-> CHOOSE d \in dirs : DirCode(d) = c]

AloneDir(dirs, code) ==
  IF \E d \in dirs : DirCode(d) = code THEN CHOOSE d \in dirs : DirCode(d) = code ELSE NoDir

\* C16: however resolve calls for one scope interleave, the memoized maps
\* are the tables a single call builds, and every call continues with the
\* segment (or null) it obtains when run alone.
C16_RacingResolversAgree ==
  /\ countryDirMap.built => countryDirMap.map = AloneMap(CountryDirs(source))
  /\ \A cc \in DOMAIN stateDirMaps :
       stateDirMaps[cc] = AloneMap(StateDirs(source, AloneDir(CountryDirs(source), cc)))
  /\ \A t \in Tasks :
       (pkg = "server" /\ host = "node" /\ roots[1] # "absent" /\ call[t].op \in Getters
          /\ pc[t] \in {"scanState", "load", "import", "done"}) =>
         LET cd == AloneDir(CountryDirs(source), call[t].cc)
             sd == AloneDir(StateDirs(source, cd), call[t].sc)
             want == IF cd = NoDir THEN <<>>
                     ELSE IF call[t].op # "getCitiesOfState" THEN <<cd>>
                     ELSE IF pc[t] = "scanState" THEN <<cd>>
                     ELSE IF sd = NoDir THEN <<>> ELSE <<cd, sd>>
         IN  IF want = <<>>
             THEN pc[t] = "done" /\ loadResult[t] = Pending
                    /\ result[t] = Resolved(NotFoundValue(call[t].op))
             ELSE path[t].dirs = want

C16_Witness ==
  \E t, u \in Tasks :
    /\ t # u /\ pkg = "server" /\ source = SrcHyphen
    /\ listed[t] = {RootScope, SrcHyphen[1].iso2} /\ listed[u] = listed[t]
    /\ pc[t] = "done" /\ pc[u] = "done"
    /\ result[t].kind = "resolved" /\ result[t].value.items # <<>>
    /\ result[u] = result[t]


\* The states of a country that the producer gives a directory.
StatesWithDir(country) == {s \in SeqToSet(country.states) : HasCities(s)}

\* C18: every entity whose directory the producer named safeDirName(label,
\* code) is found in the segment map under its code, with that directory as
\* the value, whatever characters the label and the code contain.
C18_MapKeyIsProducerCode ==
  /\ countryDirMap.built =>
       \A i \in DOMAIN source :
         HasStates(source[i]) =>
           /\ MapHas(countryDirMap.map, source[i].iso2)
           /\ countryDirMap.map[source[i].iso2] = safeDirName(source[i].name, source[i].iso2)
  /\ \A i \in DOMAIN source :
       (HasStates(source[i]) /\ MapHas(stateDirMaps, source[i].iso2)) =>
         \A s \in StatesWithDir(source[i]) :
           /\ MapHas(stateDirMaps[source[i].iso2], s.iso2)
           /\ stateDirMaps[source[i].iso2][s.iso2] = safeDirName(s.name, s.iso2)


\* The outcomes loadJSON(url) of the browser loader has when it runs alone:
\* the cached document on a hit, else what the origin and the network allow.
AloneFetch(url, hit) ==
  IF hit THEN {Resolved(ServerDoc(url))}
  ELSE {Rejected(LoadError("network")), Rejected(LoadError("AbortError"))}
         \cup (IF ServerDoc(url) = NoFile THEN {Rejected(LoadError("http"))}
               ELSE {Resolved(ServerDoc(url)), Rejected(LoadError("SyntaxError"))})

\* The outcomes loadJSON(path) of the server loader has when it runs alone.
AloneFs(p) ==
  LET lp == ReadLoop(1, p, <<>>)
      doc == generateSplitData(source, p)
  IN  IF host = "node" /\ lp.from # 0 /\ JSONparse(lp.from, p).kind = "resolved"
      THEN {JSONparse(lp.from, p)}
      ELSE {IF host # "node" THEN Rejected("browser-environment") ELSE Rejected("import-failed")}
             \cup (IF roots[1] = "valid" /\ doc # NoFile THEN {Resolved(doc)} ELSE {})

\* The document kind each getter loads.
FileOf(op) ==
  IF op = "getCountries" THEN "countries"
  ELSE IF op = "getCountryByCode" THEN "meta"
  ELSE IF op = "getStatesOfCountry" THEN "states"
  ELSE "cities"

\* The path a getter of the server loader loads when it runs alone; NoPath
\* when the code has no directory.
AlonePath(op, cc, sc) ==
  IF op = "getCountries" THEN FsPath(<<>>, "countries")
  ELSE LET cd == AloneDir(CountryDirs(source), cc)
           sd == AloneDir(StateDirs(source, cd), sc)
       IN  IF cd = NoDir THEN NoPath
           ELSE IF op # "getCitiesOfState" THEN FsPath(<<cd>>, FileOf(op))
           ELSE IF sd = NoDir THEN NoPath
           ELSE FsPath(<<cd, sd>>, "cities")

\* C17: with calls of several tasks interleaved and no configure or
\* clearCache in between, every settled call has an outcome it has when run
\* alone, and the cache and the segment maps hold exactly what sequential
\* calls put there: each URL maps to the document the origin serves for it,
\* each scope to the table of its directory listing.
C17_ConcurrentCallsAsAlone ==
  /\ \A u \in DOMAIN cache : cache[u] = ServerDoc(u) /\ cache[u] # NoFile
  /\ countryDirMap.built => countryDirMap.map = AloneMap(CountryDirs(source))
  /\ \A cc \in DOMAIN stateDirMaps :
       stateDirMaps[cc] = AloneMap(StateDirs(source, AloneDir(CountryDirs(source), cc)))
  /\ \A t \in Tasks :
       (pkg # "server" /\ pc[t] = "done" /\ clean[t] /\ agg[t].op = "none") =>
         /\ loadResult[t] \in AloneFetch(snap[t].url, ~fetched[t])
         /\ snap[t].url = PathOf(snap[t].url.base, call[t].op, call[t].cc, call[t].sc)
         /\ result[t] = getterSettle(call[t].op, loadResult[t])
  /\ \A t \in Tasks :
       (pkg = "server" /\ pc[t] = "done"
          /\ (call[t].op = "getCountries" \/ (host = "node" /\ roots[1] # "absent"))) =>
         LET p == AlonePath(call[t].op, call[t].cc, call[t].sc)
         IN  IF p = NoPath
             THEN loadResult[t] = Pending /\ result[t] = Resolved(NotFoundValue(call[t].op))
             ELSE /\ loadResult[t] \in AloneFs(p)
                  /\ result[t] = getterSettle(call[t].op, loadResult[t])

C17_Witness ==
  \E t, u \in Tasks :
    /\ t # u /\ pkg # "server" /\ pc[t] = "done" /\ pc[u] = "done"
    /\ snap[t].url = snap[u].url /\ snap[t].cache /\ snap[u].cache
    /\ fetched[t] /\ fetched[u] /\ clean[t] /\ clean[u]
    /\ loadResult[t].kind = "resolved" /\ loadResult[u] = loadResult[t]
    /\ MapHas(cache, snap[t].url)


\* The step is clearCache().
IsClearCache == cache' = EmptyMap /\ sinceClear' = [cleared |-> TRUE, urls |-> {}] /\ calls' = calls + 1

\* No step but clearCache removes a key of the cache or of a segment map.
NoKeyRemoved ==
  /\ IsClearCache \/ \A u \in DOMAIN cache : u \in DOMAIN cache'
  /\ countryDirMap.built =>
       countryDirMap'.built /\ (DOMAIN countryDirMap.map) \subseteq DOMAIN countryDirMap'.map
  /\ \A cc \in DOMAIN stateDirMaps :
       cc \in DOMAIN stateDirMaps' /\ (DOMAIN stateDirMaps[cc]) \subseteq DOMAIN stateDirMaps'[cc]

\* Task t's step executes cache.set(fullPath, data).
CacheSetBy(t) ==
  /\ pkg # "server" /\ pc[t] = "reading" /\ pc'[t] = "done"
  /\ loadResult'[t].kind = "resolved" /\ (pkg = "browserAlt" \/ snap[t].cache)

\* Task t's step assigns countryDirMap / executes stateDirMaps.set(cc, ...).
RootMapSetBy(t) == pc[t] = "scanCountry" /\ RootScope \in listed'[t]

StateMapSetBy(t) == pc[t] = "scanState" /\ pc'[t] # "scanState" /\ call[t].cc \in listed'[t]

\* C19 as stated: no key is removed but by clearCache, and a key that is
\* present is not written again.
C19_WriteOncePerKey ==
  [][/\ NoKeyRemoved
     /\ \A t \in Tasks :
          /\ CacheSetBy(t) => snap[t].url \notin DOMAIN cache
          /\ RootMapSetBy(t) => ~countryDirMap.built
          /\ StateMapSetBy(t) => call[t].cc \notin DOMAIN stateDirMaps]_vars

\* C19 (amended): no key is removed but by clearCache, and whenever a key
\* that is present is written again the value written equals the value
\* present, so a key's value never changes between two clearCache calls.
C19_KeysKeepTheirValue ==
  [][/\ NoKeyRemoved
     /\ IsClearCache \/ \A u \in (DOMAIN cache) \cap (DOMAIN cache') : cache'[u] = cache[u]
     /\ countryDirMap.built =>
          \A c \in DOMAIN countryDirMap.map : countryDirMap'.map[c] = countryDirMap.map[c]
     /\ \A cc \in DOMAIN stateDirMaps :
          \A sc \in DOMAIN stateDirMaps[cc] : stateDirMaps'[cc][sc] = stateDirMaps[cc][sc]]_vars

C19_Witness ==
  \E t, u \in Tasks :
    /\ t # u /\ pkg = "browser" /\ pc[t] = "done" /\ pc[u] = "done"
    /\ fetched[t] /\ fetched[u] /\ snap[t] = snap[u] /\ snap[t].cache
    /\ loadResult[t].kind = "resolved" /\ loadResult[u].kind = "resolved"
    /\ ~sinceClear.cleared /\ MapHas(cache, snap[t].url)
    /\ cache[snap[t].url] = loadResult[u].value


OnCountries == {"isValidCountryCode", "getCountryNameByCode", "getAllCitiesInWorld"}

\* Task t's last getter call was getCountries and its load of countries.json
\* failed.
RootListLoadFailed(t) ==
  /\ call[t].op = "getCountries" /\ pc[t] = "done" /\ loadResult[t].kind = "rejected"

\* C21: when the load of countries.json has failed, getCountries has rejected
\* with the load's error (it never answers an empty list instead), and an
\* operation built on getCountries that has settled has rejected with it too.
C21_RootListFailureRejects ==
  \A t \in Tasks :
    /\ RootListLoadFailed(t) =>
         /\ agg[t].op \in OnCountries \cup {"none"}
         /\ result[t] = loadResult[t]
         /\ agg[t].op \in OnCountries => agg[t].phase \in {FirstPhase(agg[t].op), "finished"}
    /\ (call[t].op = "getCountries" /\ pc[t] = "done" /\ agg[t].op \in {"none"} \cup OnCountries
          /\ agg[t].phase \in {"none", "single", "countries"}) =>
         result[t].kind = loadResult[t].kind

C21_Witness ==
  \E t \in Tasks :
    /\ RootListLoadFailed(t) /\ loadResult[t] = Rejected(LoadError("http"))
    /\ agg[t].op = "getAllCitiesInWorld" /\ agg[t].phase = "finished"
    /\ result[t] = loadResult[t]


\* C22: the fetch a getCountries call issues goes to baseURL + '/countries.json'
\* with the headers of the configuration at the moment the call started, and
\* a configure or reset while the request is in flight does not alter it.
C22_FetchUsesConfigAtCallStart ==
  [][\A t \in Tasks :
       /\ ~fetched[t] /\ fetched'[t] =>
            /\ snap'[t].url = [base |-> currentConfig.baseURL, dir |-> "countries", name |-> <<>>]
            /\ snap'[t].headers = currentConfig.headers
       /\ pc[t] \in {"fetching", "reading"} => snap'[t] = snap[t]]_vars

C22_Witness ==
  \E t \in Tasks :
    /\ pc[t] = "reading" /\ fetched[t] /\ ~clean[t]
    /\ snap[t].url.base = "/cdn" /\ snap[t].headers = [k \in {"A"} |-> "9"]
    /\ currentConfig = defaultConfig


\* C23: configure(options) sets the top-level fields that options has, keeps
\* the others, and merges the headers of options key by key into the headers
\* configured before.
C23_ConfigureMergesFields ==
  [][\A options \in LoaderOptions \cup HeaderOptions :
       Configure(options) =>
         /\ \A f \in (DOMAIN currentConfig) \ {"headers"} :
              currentConfig'[f] = IF f \in DOMAIN options THEN options[f] ELSE currentConfig[f]
         /\ LET old == currentConfig.headers
                new == currentConfig'.headers
                given == IF "headers" \in DOMAIN options THEN options.headers ELSE EmptyMap
            IN  /\ DOMAIN new = (DOMAIN old) \cup (DOMAIN given)
                /\ \A k \in DOMAIN new :
                     new[k] = IF k \in DOMAIN given THEN given[k] ELSE old[k]]_vars


\* The documented defaults.
Defaults == [baseURL |-> "/data", cache |-> TRUE, timeout |-> 5000, headers |-> EmptyMap]

\* C24: whatever was configured before, after resetConfiguration() getConfig()
\* returns the documented defaults, and a reset of a configuration that is
\* already the defaults changes nothing.
C24_ResetRestoresDefaults ==
  [][ResetConfiguration =>
       /\ getConfig(currentConfig') = Defaults
       /\ currentConfig = Defaults => currentConfig' = currentConfig]_vars

C24_Witness ==
  \E t \in Tasks :
    /\ pkg = "browser" /\ pc[t] \in {"fetching", "reading"} /\ ~clean[t]
    /\ snap[t].headers = HeaderA /\ snap[t].url.base = "/data"
    /\ getConfig(currentConfig) = Defaults


\* ---------------------------------------------------------------- C25
\* The arrays the getCitiesOfState calls of one getAllCitiesOfCountry answered,
\* joined in the order of the calls.
RECURSIVE Concatenation(_, _)
Concatenation(par, i) ==
  IF i > Len(par) THEN <<>> ELSE par[i].items \o Concatenation(par, i + 1)

\* C25: a finished getAllCitiesOfCountry(code) resolved with the concatenation,
\* in the order of the states list, of what getCitiesOfState(code, state.iso2)
\* answered for every state getStatesOfCountry(code) returned, one call per
\* state, in the sequential and in the Promise.all variant; it is empty when
\* there are no states, and every city has country_code = code.
C25_AggregateIsConcatenation ==
  \A t \in Tasks :
    agg[t].op = "getAllCitiesOfCountry" /\ agg[t].phase = "finished" =>
      /\ result[t].kind = "resolved"
      /\ LET a == agg[t]
             r == result[t].value.items
         IN  /\ Len(a.par) = Len(a.states)
             /\ \A i \in DOMAIN a.par : a.par[i].sc = a.states[i]
             /\ r = Concatenation(a.par, 1)
             /\ a.states = <<>> => r = <<>>
             /\ \A i \in DOMAIN r : r[i].country_code = a.cc

\* The Promise.all variant finished over two states that both have a city.
C25_Witness ==
  \E t \in Tasks :
    /\ pkg = "browserAlt"
    /\ agg[t].op = "getAllCitiesOfCountry" /\ agg[t].phase = "finished"
    /\ Len(agg[t].par) = 2
    /\ agg[t].par[1].items # <<>> /\ agg[t].par[2].items # <<>>
    /\ Len(result[t].value.items) = 2


\* ---------------------------------------------------------------- C26
\* C26: a finished state utility made the one call getStatesOfCountry(c) and
\* nothing else, and its answer is a view of the list that call returned:
\* isValidStateCode is true exactly when some record has iso2 = s, which is
\* exactly when getStateByCode is non-null (the first such record), and then
\* getStateNameByCode is that record's name; both are null otherwise.
C26_StateUtilitiesAreViews ==
  \A t \in Tasks :
    /\ agg[t].op \in {"isValidStateCode", "getStateByCode", "getStateNameByCode"}
    /\ agg[t].phase = "finished"
    =>
      \* list: what getStatesOfCountry answered to the utility
      LET list == getterSettle("getStatesOfCountry", loadResult[t]).value.items
          hit == {i \in DOMAIN list : list[i].iso2 = agg[t].arg}
          first == CHOOSE i \in hit : \A j \in hit : i <= j
      IN  /\ call[t] = [op |-> "getStatesOfCountry", cc |-> agg[t].cc, sc |-> <<>>]
          /\ result[t].kind = "resolved"
          /\ agg[t].op = "isValidStateCode" => result[t].value = Bool(hit # {})
          /\ agg[t].op = "getStateByCode" =>
                result[t].value = IF hit = {} THEN Null ELSE Obj(list[first])
          /\ agg[t].op = "getStateNameByCode" =>
                result[t].value = IF hit = {} THEN Null ELSE Str(list[first].name)

\* One caller got the name of an existing state while another was told that
\* a code of the same country is not valid.
C26_Witness ==
  \E t, u \in Tasks :
    /\ agg[t].op = "getStateNameByCode" /\ agg[t].phase = "finished"
    /\ result[t].value = Str(source[1].states[1].name)
    /\ agg[u].op = "isValidStateCode" /\ agg[u].phase = "finished"
    /\ agg[u].arg = AbsentCode
    /\ getterSettle("getStatesOfCountry", loadResult[u]).value.items # <<>>
    /\ result[u].value = Bool(FALSE)


\* ---------------------------------------------------------------- C27
\* C27: a finished searchCitiesByName(c, s, term) resolved with exactly the
\* cities getCitiesOfState(c, s) answered whose name contains term when
\* letters are compared without regard to case, in their original order; the
\* answer is [] when no name matches and when the state does not exist.
C27_SearchIsCaseInsensitiveFilter ==
  \A t \in Tasks :
    agg[t].op = "searchCitiesByName" /\ agg[t].phase = "finished" =>
      LET cities == getterSettle("getCitiesOfState", loadResult[t]).value.items
          term == agg[t].arg
          SameLetter(a, b) ==
            a = b \/ \E k \in DOMAIN UpperCase : {a, b} = {UpperCase[k], LowerCase[k]}
          Contains(name) ==
            \E off \in 0..(Len(name) - Len(term)) :
              \A j \in 1..Len(term) : SameLetter(name[off + j], term[j])
          r == result[t].value.items
      IN  /\ call[t] = [op |-> "getCitiesOfState", cc |-> agg[t].cc, sc |-> agg[t].sc]
          /\ result[t].kind = "resolved"
          /\ r = SelectSeq(cities, LAMBDA city : Contains(city.name))
          /\ (\A i \in DOMAIN cities : ~Contains(cities[i].name)) => r = <<>>
          /\ agg[t].sc = AbsentCode => r = <<>>

\* A lower-case term found the one city of two whose upper-case name holds it.
C27_Witness ==
  \E t \in Tasks :
    /\ agg[t].op = "searchCitiesByName" /\ agg[t].phase = "finished"
    /\ agg[t].arg = <<"s", "f">>
    /\ Len(getterSettle("getCitiesOfState", loadResult[t]).value.items) = 2
    /\ Len(result[t].value.items) = 1
    /\ result[t].value.items[1].name = <<"S", "F">>


\* ---------------------------------------------------------------- C28
\* C28: with the origin serving the browser tree that transformData produces
\* from the server tree T, a getCountryByCode, getStatesOfCountry or
\* getCitiesOfState call of the fetch-based loader that read the tree (its
\* request was answered by the origin, or by the cache) returns what the same
\* getter of the filesystem loader returns on T: the document at the directory
\* the codes resolve to, else null / []. The filesystem loader on an installed
\* T returns that value as well.
C28_BrowserGettersMatchServer ==
  \A t \in Tasks :
    LET op == call[t].op
        p == AlonePath(op, call[t].cc, call[t].sc)
        doc == generateSplitData(source, p)
        onT == IF p = NoPath \/ doc = NoFile THEN Resolved(NotFoundValue(op))
               ELSE Resolved(doc)
        readTree == \/ loadResult[t].kind = "resolved"
                    \/ loadResult[t] = Rejected(LoadError("http"))
    IN  /\ pc[t] = "done" /\ agg[t].phase # "finished"
        /\ op \in {"getCountryByCode", "getStatesOfCountry", "getCitiesOfState"}
        /\ \/ pkg # "server" /\ readTree
           \/ pkg = "server" /\ roots[1] = "valid"
        => result[t] = onT

\* The fetch-based loader answered the cities of the state whose code ends in
\* the piece asked for, and [] for that state's own hyphenated code.
C28_Witness ==
  \E t, u \in Tasks :
    /\ pkg # "server" /\ source = SrcHyphen
    /\ pc[t] = "done" /\ agg[t].op = "none" /\ call[t].op = "getCitiesOfState"
    /\ call[t].sc = DirCode(SrcHyphen[1].states[1].iso2)
    /\ result[t].kind = "resolved" /\ result[t].value.items # <<>>
    /\ pc[u] = "done" /\ call[u].op = "getCitiesOfState"
    /\ call[u].sc = SrcHyphen[1].states[1].iso2
    /\ loadResult[u] = Rejected(LoadError("http"))


\* ---------------------------------------------------------------- C29
\* C29: for a timezone name that timezones.json does not list,
\* getTimezoneInfo resolves to null and isValidTimezone to false, while
\* getCurrentTime and getGMTOffset reject; getTimezonesByCountry never
\* rejects, and resolves to [] for a country code that has no by-country
\* document.
C29_AbsenceByValueOrException ==
  \A t \in Tasks :
    (pkg = "timezones" /\ agg[t].phase = "finished") =>
      LET uop == agg[t].op
          arg == agg[t].arg[1]
          listed_ == TzData[source].allTimezones
          unlisted == \A i \in DOMAIN listed_ : listed_[i].zoneName # arg
      IN  /\ (uop = "getTimezoneInfo" /\ unlisted) => result[t] = Resolved(Null)
          /\ (uop = "isValidTimezone" /\ unlisted) => result[t] = Resolved(Bool(FALSE))
          /\ (uop \in {"getCurrentTime", "getGMTOffset"} /\ unlisted) =>
                result[t].kind = "rejected"
          /\ uop = "getTimezonesByCountry" =>
                /\ result[t].kind = "resolved"
                /\ ~MapHas(TzData[source].byCountry, arg) => result[t] = Resolved(Arr(<<>>))

\* One caller's getCurrentTime rejected for a name that is not listed, while
\* another's getTimezonesByCountry answered [] for a code without document.
C29_Witness ==
  \E t, u \in Tasks :
    /\ pkg = "timezones"
    /\ agg[t].op = "getCurrentTime" /\ agg[t].phase = "finished" /\ agg[t].arg = <<"tzX">>
    /\ result[t].kind = "rejected"
    /\ agg[u].op = "getTimezonesByCountry" /\ agg[u].phase = "finished"
    /\ agg[u].arg = <<AbsentCode>> /\ result[u] = Resolved(Arr(<<>>))

\* ---------------------------------------------------------------- C30
\* C30: for an offset that is a whole number of minutes with |offset| below
\* 24 hours, formatGMTOffset returns 'UTC', a sign that is '+' exactly when
\* the offset is >= 0, two digits HH, ':' and two digits MM with
\* HH*3600 + MM*60 = |offset|; 0 gives 'UTC+00:00', 19800 'UTC+05:30' and
\* -18000 'UTC-05:00'.
C30_FormatGMTOffset ==
  \A t \in Tasks :
    (pkg = "timezones" /\ agg[t].op = "formatGMTOffset" /\ agg[t].phase = "finished") =>
      LET o == agg[t].arg[1]
          mag == IF o < 0 THEN -o ELSE o
          s == result[t].value.val
          digits == <<"0", "1", "2", "3", "4", "5", "6", "7", "8", "9">>
          isDigit(c) == \E d \in 0..9 : digits[d + 1] = c
          val(c) == CHOOSE d \in 0..9 : digits[d + 1] = c
      IN  (o % 60 = 0 /\ mag < 24 * 3600) =>
            /\ result[t].kind = "resolved"
            /\ Len(s) = 9 /\ SubSeq(s, 1, 3) = <<"U", "T", "C">> /\ s[7] = ":"
            /\ s[4] \in {"+", "-"} /\ (s[4] = "+" <=> o >= 0)
            /\ \A k \in {5, 6, 8, 9} : isDigit(s[k])
            /\ (val(s[5]) * 10 + val(s[6])) * 3600 + (val(s[8]) * 10 + val(s[9])) * 60 = mag
            /\ o = 0 => s = <<"U", "T", "C", "+", "0", "0", ":", "0", "0">>
            /\ o = 19800 => s = <<"U", "T", "C", "+", "0", "5", ":", "3", "0">>
            /\ o = -18000 => s = <<"U", "T", "C", "-", "0", "5", ":", "0", "0">>

\* A negative offset with a half hour was formatted.
C30_Witness ==
  \E t \in Tasks :
    /\ pkg = "timezones" /\ agg[t].op = "formatGMTOffset" /\ agg[t].phase = "finished"
    /\ agg[t].arg = <<-34200>>
    /\ result[t] = Resolved(Str(<<"U", "T", "C", "-", "0", "9", ":", "3", "0">>))

\* The loads an operation of task t has started and not yet seen settle: the
\* getter the task awaits, or the pending calls under Promise.all.
Outstanding(t) ==
  IF pc[t] = "par"
  THEN Cardinality({i \in DOMAIN agg[t].par : agg[t].par[i].st = "flight"})
  ELSE IF pc[t] \in {"idle", "done"} THEN 0 ELSE 1

\* C31 (as the code has it): getAllCitiesOfCountry of the Promise.all build
\* starts one getCitiesOfState call per state of the country before it awaits
\* any, so its outstanding loads are bounded by the number of states only;
\* every other aggregate loop (getAllCitiesOfCountry of the other two
\* loaders, getAllCitiesInWorld of all three) awaits each child before it
\* starts the next and has at most one load outstanding.
C31_OutstandingLoadsPerAggregate ==
  \A t \in Tasks :
    agg[t].op \in {"getAllCitiesOfCountry", "getAllCitiesInWorld"} =>
      IF pc[t] = "par"
      THEN /\ pkg = "browserAlt"
           /\ Len(agg[t].par) = Len(agg[t].states)
           /\ \A i \in DOMAIN agg[t].par : agg[t].par[i].sc = agg[t].states[i]
           /\ Outstanding(t) <= Len(agg[t].states)
      ELSE Outstanding(t) <= 1

\* getAllCitiesInWorld of the Promise.all build has both city loads of its
\* first country in flight while the second country waits.
C31_Witness ==
  /\ pkg = "browserAlt" /\ agg[1].op = "getAllCitiesInWorld"
  /\ Len(agg[1].states) = 2 /\ Outstanding(1) = 2
  /\ agg[1].outer # <<>>

\* C31 (as stated): neither aggregate holds a child scope back: while a load
\* of an aggregate call is outstanding, no state of the country and no country
\* of the world is still waiting for its load to be started.
C31_NoChildScopeWaits ==
  \A t \in Tasks :
    (agg[t].op \in {"getAllCitiesOfCountry", "getAllCitiesInWorld"} /\ Outstanding(t) > 0) =>
      agg[t].todo = <<>> /\ agg[t].outer = <<>>

\* C32: in a layout where loadJSON('./data/countries.json') succeeds through
\* a fallback candidate (the parent-relative root or the install root under
\* cwd/node_modules), a getter asked for a country (and state) whose directory
\* exists under that root returns that directory's document, not null or [].
C32_ResolverUsesLoadersRoot ==
  \A t \in Tasks :
    LET root == ReadLoop(1, FsPath(<<>>, "countries"), <<>>).from
        p == AlonePath(call[t].op, call[t].cc, call[t].sc)
    IN  (pkg = "server" /\ host = "node" /\ pc[t] = "done" /\ call[t].op \in Getters
           /\ root \in {2, 3} /\ roots[root] = "valid" /\ p # NoPath) =>
          result[t] = Resolved(generateSplitData(source, p))

\* C33: after clearCache() has returned, no cache hit serves a document whose
\* fetch was issued before the clear: a call answered from the Map without a
\* fetch is for a URL that some load has been started for since the clear
\* (only such a load can have fetched the document after it).
C33_NoHitOnPreClearFetch ==
  [][\A t \in Tasks :
       (pc[t] = "idle" /\ pc'[t] = "done" /\ sinceClear.cleared
          /\ ~fetched'[t] /\ loadResult'[t].kind = "resolved") =>
         snap'[t].url \in sinceClear.urls]_vars

\* C34: a load returns the document of the base URL configured when it was
\* called. Its URL is baseURL + path of the configuration at call start and
\* stays that while the load is in flight, whatever is configured meanwhile;
\* a resolved load (hit or fetched) returns what that URL's origin serves; a
\* cache entry is only ever written by a load that read the body of that very
\* URL, with that URL's document, so every key holds the document of its own
\* URL and a load under another baseURL, whose key differs, cannot hit it.
C34_LoadBoundToBaseAtCallStart ==
  [][/\ \A t \in Tasks :
         /\ (pc[t] = "idle" /\ pc'[t] # "idle") =>
              snap'[t].url = PathOf(currentConfig.baseURL, call'[t].op, call'[t].cc, call'[t].sc)
         /\ pc[t] \in {"fetching", "reading"} => snap'[t].url = snap[t].url
         /\ (pc[t] # "done" /\ pc'[t] = "done" /\ loadResult'[t].kind = "resolved") =>
              loadResult'[t].value = ServerDoc(snap'[t].url)
     /\ \A u \in DOMAIN cache' :
          (u \notin DOMAIN cache \/ cache'[u] # cache[u]) =>
            /\ cache'[u] = ServerDoc(u)
            /\ \E w \in Tasks : pc[w] = "reading" /\ snap[w].url = u]_vars

\* A load called under "/data" resolved with that origin's document after the
\* base URL had been changed to "/cdn", its entry is in the Map, and a load of
\* the same path called under "/cdn" had to fetch.
C34_Witness ==
  \E t, u \in Tasks :
    /\ pc[t] = "done" /\ fetched[t] /\ ~clean[t] /\ snap[t].url.base = "/data"
    /\ loadResult[t] = Resolved(ServerDoc(snap[t].url)) /\ MapHas(cache, snap[t].url)
    /\ currentConfig.baseURL = "/cdn"
    /\ pc[u] \in {"fetching", "reading"} /\ fetched[u]
    /\ snap[u].url = [snap[t].url EXCEPT !.base = "/cdn"]
    /\ ServerDoc(snap[u].url) # ServerDoc(snap[t].url)

\* C35: a failed load changes no memoized state. The step in which a
\* fetch-based loadJSON call rejects (non-OK status, network error, timeout,
\* unparsable body) leaves the Map as it was; the step in which the root
\* enumeration throws (the data directory does not exist) leaves both segment
\* maps as they were, the country map still null. A request identical to one
\* that failed therefore repeats the I/O: it fetches unless the Map holds the
\* URL, and it enumerates the directory again.
C35_FailureMemoizesNothing ==
  [][\A t \in Tasks :
       /\ (pkg # "server" /\ loadResult[t].kind # "rejected" /\ loadResult'[t].kind = "rejected") =>
            cache' = cache
       /\ (pkg = "server" /\ pc[t] = "scanCountry" /\ pc'[t] # "scanCountry"
              /\ roots[1] = "absent") =>
            /\ ~countryDirMap'.built /\ countryDirMap' = countryDirMap
            /\ stateDirMaps' = stateDirMaps
            /\ result'[t] = getterSettle(call[t].op, Rejected("ENOENT"))
       /\ \A u \in Tasks \ {t} :
            (pc[t] = "idle" /\ pc'[t] # "idle" /\ pc[u] = "done" /\ call'[t] = call[u]) =>
              /\ (pkg # "server" /\ loadResult[u].kind = "rejected"
                     /\ snap'[t].url = snap[u].url /\ ~MapHas(cache, snap[u].url)) =>
                   fetched'[t] /\ pc'[t] = "fetching"
              /\ (pkg = "server" /\ roots[1] = "absent" /\ call[u].op \in Getters) =>
                   pc'[t] = "scanCountry"]_vars

\* A load was rejected, the Map has nothing under its URL, and an identical
\* request is fetching again.
C35_Witness ==
  \E t, u \in Tasks :
    /\ t # u /\ pkg = "browser" /\ call[t] = call[u] /\ call[t].op \in Getters
    /\ pc[u] = "done" /\ loadResult[u].kind = "rejected" /\ fetched[u]
    /\ pc[t] = "fetching" /\ fetched[t] /\ snap[t].url = snap[u].url
    /\ ~MapHas(cache, snap[u].url)

\* C36: no task observes a partially built segment map. Whenever
\* countryDirMap is non-null it has a key for every country directory of the
\* listing it was built from, and whenever stateDirMaps has an entry for a
\* country that entry has a key for every state directory of the country's
\* listing; each key holds a directory of the listing with that code.
C36_SegmentMapsComplete ==
  /\ countryDirMap.built =>
       /\ \A d \in CountryDirs(source) : MapHas(countryDirMap.map, DirCode(d))
       /\ \A k \in DOMAIN countryDirMap.map :
            countryDirMap.map[k] \in CountryDirs(source) /\ DirCode(countryDirMap.map[k]) = k
  /\ \A cc \in DOMAIN stateDirMaps :
       /\ countryDirMap.built /\ MapHas(countryDirMap.map, cc)
       /\ \A d \in StateDirs(source, countryDirMap.map[cc]) :
            MapHas(stateDirMaps[cc], DirCode(d))
       /\ \A k \in DOMAIN stateDirMaps[cc] :
            /\ stateDirMaps[cc][k] \in StateDirs(source, countryDirMap.map[cc])
            /\ DirCode(stateDirMaps[cc][k]) = k

\* A getCitiesOfState call that listed nothing itself resolved both segments
\* from maps another call built, the state map having two keys.
C36_Witness ==
  \E t \in Tasks :
    /\ pkg = "server" /\ call[t].op = "getCitiesOfState" /\ listed[t] = {}
    /\ pc[t] \in {"load", "done"} /\ Len(path[t].dirs) = 2
    /\ MapHas(stateDirMaps, call[t].cc)
    /\ Cardinality(DOMAIN stateDirMaps[call[t].cc]) = 2

\* C37: the timeout timer of a loadJSON call is cancelled no later than the
\* call settles, on every exit path, and a cache hit arms none: after every
\* step a task that is not inside a load has no timer armed, a timer is armed
\* only by a call that went on to fetch, and the timer callback (abort) runs
\* only for a timer that is armed, hence only before the call has settled.
C37_TimerClearedBySettle ==
  [][\A t \in Tasks :
       /\ pc'[t] \in {"idle", "done"} => ~timer'[t]
       /\ timer'[t] => fetched'[t] /\ pc'[t] \in {"fetching", "reading"}
       /\ (pc[t] = "idle" /\ pc'[t] = "done") => ~timer'[t] /\ ~fetched'[t]
       /\ (~aborted[t] /\ aborted'[t]) =>
            timer[t] /\ pc[t] \in {"fetching", "reading"} /\ loadResult[t] = Pending]_vars

\* The Promise.all build's call, whose timer stays armed during the body
\* read, settled with the body's SyntaxError and has no timer left.
C37_Witness ==
  \E t \in Tasks :
    /\ pkg = "browserAlt" /\ pc[t] = "done" /\ fetched[t] /\ ~aborted[t]
    /\ loadResult[t] = Rejected(LoadError("SyntaxError")) /\ ~timer[t]

\* C38: after any sequence of configure(options) and resetConfiguration()
\* calls, options being any object ConfigOptions admits (a field may be
\* present with the value undefined), the current configuration has a value
\* for each of baseURL, cache, timeout and headers.
C38_ConfigFieldsDefined ==
  DOMAIN getConfig(currentConfig) = {"baseURL", "cache", "timeout", "headers"}

====
